---- MODULE Spec2Model ----
(***************************************************************************)
(* uHash: the open-addressing hash table engine of include/uhash.h and the *)
(* map / set layers built on it.                                           *)
(*                                                                         *)
(* Build modelled: UHASH_TINY (uhash_uint_t = uint16_t), the one index     *)
(* width whose full range fits the integers of the model checker.          *)
(* Instantiations modelled: a map  UHASH_MAP_INIT(T, uint32_t, uint32_t,   *)
(* uhash_int32_hash, uhash_identical) (uhash_map = 1) and a set            *)
(* UHASH_SET_DECL/UHASH_SET_IMPL(T, uint32_t, uhash_int32_hash,            *)
(* uhash_identical) (uhash_map = 0).                                       *)
(*                                                                         *)
(* Allocator: malloc and a growing realloc may return NULL (the sites the  *)
(* code tests); realloc to a smaller size (lines 388-389, result not       *)
(* tested by the code) is taken to succeed.                                *)
(*                                                                         *)
(* Dead storage: keys[i] and vals[i] of a bucket that is not OCCUPIED are  *)
(* never read before they are written again (every read in the source is  *)
(* guarded by the flag of the bucket).  The state keeps such a slot, like  *)
(* memory that was allocated and never written, as Uninit: the operators   *)
(* below are the code, and Observable(t) is the table between two calls    *)
(* with its dead slots forgotten.  DeadSlotsUnread checks that no call's   *)
(* outcome depends on what a dead slot holds.                              *)
(***************************************************************************)
EXTENDS Integers, Naturals, Sequences, FiniteSets, TLC

(* ------------------------------ bounds --------------------------------- *)
MaxKeyIdx == 3
MaxBuckets == 8
MaxItems == 2

\* Keys that collide: all of them hash to bucket 3 of a 4-bucket table, so
\* that their probes wrap around and a rehash evicts elements.
Keys == {4 * i + 3 : i \in 0..MaxKeyIdx}
\* The code never inspects a value: two values tell any two keys apart.
Vals == {0, 1}

(* --------------------------- program constants ------------------------- *)
UHASH_UINT_BITS == 16
UHASH_UINT_MAX == 65535
UHASH_INDEX_MISSING == UHASH_UINT_MAX
UHASH_ERROR == -1
UHASH_PRESENT == 0
UHASH_INSERTED == 1

Uninit == -1

Wrap == 2 ^ UHASH_UINT_BITS

(* unsigned arithmetic of uhash_uint_t *)
uint(x) == x % Wrap

Pow2 == {2 ^ e : e \in 0..UHASH_UINT_BITS}

\* a & b; when b is 2^e - 1 the low e bits of a.
RECURSIVE BitAnd(_, _)
BitAnd(a, b) ==
    IF a = 0 \/ b = 0 THEN 0
    ELSE IF (b + 1) \in Pow2 THEN a % (b + 1)
    ELSE ((a % 2) * (b % 2)) + 2 * BitAnd(a \div 2, b \div 2)

RECURSIVE BitOr(_, _)
BitOr(a, b) ==
    IF a = 0 THEN b
    ELSE IF b = 0 THEN a
    ELSE (IF (a % 2) + (b % 2) > 0 THEN 1 ELSE 0) + 2 * BitOr(a \div 2, b \div 2)

RECURSIVE BitXor(_, _)
BitXor(a, b) ==
    IF a = 0 THEN b
    ELSE IF b = 0 THEN a
    ELSE (((a % 2) + (b % 2)) % 2) + 2 * BitXor(a \div 2, b \div 2)

(* ------------------------------- flags --------------------------------- *)
(* flags[i] is the two-bit field of bucket i: bit 1 = empty, bit 0 = del.   *)
__uhf_size(m) == IF m < 16 THEN 1 ELSE m \div 16

__uhf_isempty(flag, i) == (flag[i] \div 2) % 2 = 1
__uhf_isdel(flag, i) == flag[i] % 2 = 1
__uhf_iseither(flag, i) == flag[i] % 4 # 0
__uhf_set_isempty_false(flag, i) == [flag EXCEPT ![i] = BitAnd(@, 1)]
__uhf_set_isboth_false(flag, i) == [flag EXCEPT ![i] = 0]
__uhf_set_isdel_true(flag, i) == [flag EXCEPT ![i] = BitOr(@, 1)]

(* memset(flags, 0xaa, __uhf_size(n) * sizeof(uint32_t)): 16 buckets a word *)
memset_flags(n) == [i \in 0..(16 * __uhf_size(n) - 1) |-> 2]

uhash_exists(h, x) == ~__uhf_iseither(h.flags, x)

__uhash_upper_bound(n_buckets) == uint((77 * n_buckets + 50) \div 100)

__uhash_uint_next_power_2(x) ==
    LET x0 == uint(x - 1)
        x1 == BitOr(x0, x0 \div 2)
        x2 == BitOr(x1, x1 \div 4)
        x3 == BitOr(x2, x2 \div 16)
        x4 == BitOr(x3, x3 \div 256)
    IN uint(x4 + 1)

(* UHASH_TINY: (uhash_uint_t)((key) >> 17u ^ (key) ^ (key) << 6u), key a   *)
(* uint32_t: the left shift drops the bits above bit 31.                   *)
__uhash_int32_hash(key) ==
    uint(BitXor(BitXor(key \div 131072, key), (key % 67108864) * 64))

uhash_identical(a, b) == a = b

\* __hash_func of the instantiation, tabulated over the keys of the model.
HashOf == [k \in Keys |-> __uhash_int32_hash(k)]
__hash_func(key) ==
    IF key \in DOMAIN HashOf THEN HashOf[key] ELSE __uhash_int32_hash(key)
__equal_func(a, b) == uhash_identical(a, b)

(* ------------------------------ the table ------------------------------ *)
(* calloc(1, sizeof(UHash_T)): all fields zero, the three arrays NULL.      *)
uhash_alloc ==
    [n_buckets |-> 0, n_occupied |-> 0, count |-> 0,
     flags |-> << >>, keys |-> << >>, vals |-> << >>]

\* realloc(p, n * sizeof *p): the old contents up to the smaller length.
realloc(arr, n) ==
    [i \in 0..(n - 1) |-> IF i \in DOMAIN arr THEN arr[i] ELSE Uninit]

(* ------------------------------ uhash_get ------------------------------ *)
\* get_probe ending its walk at a DELETED bucket as it does at an EMPTY one.
RECURSIVE get_probe_tombstone_stop(_, _, _, _, _, _)
get_probe_tombstone_stop(t, key, mask, i, step, start) ==
    IF ~__uhf_iseither(t.flags, i) /\ ~__equal_func(t.keys[i], key)
    THEN LET step1 == uint(step + 1)
             i1 == BitAnd(uint(i + step1), mask)
         IN IF i1 = start THEN UHASH_INDEX_MISSING
            ELSE get_probe_tombstone_stop(t, key, mask, i1, step1, start)
    ELSE IF __uhf_iseither(t.flags, i) THEN UHASH_INDEX_MISSING ELSE i

RECURSIVE get_probe(_, _, _, _, _, _)
get_probe(t, key, mask, i, step, start) ==
    IF ~__uhf_isempty(t.flags, i)
       /\ (__uhf_isdel(t.flags, i) \/ ~__equal_func(t.keys[i], key))
    THEN LET step1 == uint(step + 1)
             i1 == BitAnd(uint(i + step1), mask)
         IN IF i1 = start THEN UHASH_INDEX_MISSING
            ELSE get_probe(t, key, mask, i1, step1, start)
    ELSE IF __uhf_iseither(t.flags, i) THEN UHASH_INDEX_MISSING ELSE i

\* Lines 293-304: the walk from the home bucket i.
get_from(t, key, mask, i) == get_probe(t, key, mask, i, 0, i)

uhash_get(t, key) ==
    IF t.n_buckets = 0 THEN UHASH_INDEX_MISSING
    ELSE get_from(t, key, t.n_buckets - 1,
                  BitAnd(uint(__hash_func(key)), t.n_buckets - 1))

uhash_contains(t, key) == uhash_get(t, key) # UHASH_INDEX_MISSING

(* ----------------------------- uhash_resize ---------------------------- *)
(* The rehash works on r = [flags, new_flags, keys, vals].                  *)
RECURSIVE probe_new_empty(_, _, _, _)
probe_new_empty(new_flags, new_mask, i, step) ==
    IF ~__uhf_isempty(new_flags, i)
    THEN probe_new_empty(new_flags, new_mask,
                         BitAnd(uint(i + uint(step + 1)), new_mask), uint(step + 1))
    ELSE i

\* kick_out carrying on with the value it came with, not the evicted one.
RECURSIVE kick_out_keys_only(_, _, _, _, _, _)
kick_out_keys_only(r, key, val, old_n, new_mask, map) ==
    LET i == probe_new_empty(r.new_flags,
                             new_mask, BitAnd(uint(__hash_func(key)), new_mask), 0)
        nf == __uhf_set_isempty_false(r.new_flags, i)
    IN IF i < old_n /\ ~__uhf_iseither(r.flags, i)
       THEN kick_out_keys_only([flags |-> __uhf_set_isdel_true(r.flags, i),
                                new_flags |-> nf,
                                keys |-> [r.keys EXCEPT ![i] = key],
                                vals |-> IF map THEN [r.vals EXCEPT ![i] = val] ELSE r.vals],
                               r.keys[i], val, old_n, new_mask, map)
       ELSE [flags |-> r.flags,
             new_flags |-> nf,
             keys |-> [r.keys EXCEPT ![i] = key],
             vals |-> IF map THEN [r.vals EXCEPT ![i] = val] ELSE r.vals]

\* kick_out writing over the bucket it lands on without evicting its element.
kick_out_no_evict(r, key, val, old_n, new_mask, map) ==
    LET i == probe_new_empty(r.new_flags,
                             new_mask, BitAnd(uint(__hash_func(key)), new_mask), 0)
    IN [flags |-> IF i < old_n THEN __uhf_set_isdel_true(r.flags, i) ELSE r.flags,
        new_flags |-> __uhf_set_isempty_false(r.new_flags, i),
        keys |-> [r.keys EXCEPT ![i] = key],
        vals |-> IF map THEN [r.vals EXCEPT ![i] = val] ELSE r.vals]

\* Lines 363-382: one round of the kick-out loop, key and val in hand.
\* kick_at is lines 369-381, with i the free bucket of new_flags found for key.
RECURSIVE kick_out(_, _, _, _, _, _)
RECURSIVE kick_at(_, _, _, _, _, _, _)
kick_at(r, key, val, old_n, new_mask, map, i) ==
    IF i < old_n /\ ~__uhf_iseither(r.flags, i)
    THEN kick_out([flags |-> __uhf_set_isdel_true(r.flags, i),
                   new_flags |-> __uhf_set_isempty_false(r.new_flags, i),
                   keys |-> [r.keys EXCEPT ![i] = key],
                   vals |-> IF map THEN [r.vals EXCEPT ![i] = val] ELSE r.vals],
                  r.keys[i], IF map THEN r.vals[i] ELSE val,
                  old_n, new_mask, map)
    ELSE [flags |-> r.flags,
          new_flags |-> __uhf_set_isempty_false(r.new_flags, i),
          keys |-> [r.keys EXCEPT ![i] = key],
          vals |-> IF map THEN [r.vals EXCEPT ![i] = val] ELSE r.vals]

kick_out(r, key, val, old_n, new_mask, map) ==
    kick_at(r, key, val, old_n, new_mask, map,
            probe_new_empty(r.new_flags, new_mask,
                            BitAnd(uint(__hash_func(key)), new_mask), 0))

RECURSIVE rehash(_, _, _, _, _)
rehash(r, j, old_n, new_mask, map) ==
    IF j = old_n THEN r
    ELSE IF __uhf_iseither(r.flags, j) THEN rehash(r, j + 1, old_n, new_mask, map)
    ELSE rehash(kick_out([r EXCEPT !.flags = __uhf_set_isdel_true(r.flags, j)],
                         r.keys[j], IF map THEN r.vals[j] ELSE Uninit,
                         old_n, new_mask, map),
                j + 1, old_n, new_mask, map)

\* round_up without the clamp to 4 of line 314.
round_up_unclamped(p) == p

\* Lines 313-314: the capacity asked for, rounded and clamped.
round_up(p) == IF p < 4 THEN 4 ELSE p

\* Lines 386-396: the table installed after the rehash r.
resize_install(t, new_n_buckets, map, r) ==
    [n_buckets |-> new_n_buckets,
     n_occupied |-> t.count,
     count |-> t.count,
     flags |-> r.new_flags,
     keys |-> IF t.n_buckets > new_n_buckets THEN realloc(r.keys, new_n_buckets)
              ELSE r.keys,
     vals |-> IF t.n_buckets > new_n_buckets /\ map THEN realloc(r.vals, new_n_buckets)
              ELSE r.vals]

\* Lines 354-396 once every allocation has succeeded.
resize_rehash(t, new_n_buckets, map) ==
    resize_install(t, new_n_buckets, map,
        rehash([flags |-> t.flags,
                new_flags |-> memset_flags(new_n_buckets),
                keys |-> IF t.n_buckets < new_n_buckets
                         THEN realloc(t.keys, new_n_buckets) ELSE t.keys,
                vals |-> IF t.n_buckets < new_n_buckets /\ map
                         THEN realloc(t.vals, new_n_buckets) ELSE t.vals],
               0, t.n_buckets, new_n_buckets - 1, map))

\* resize_to taking a request for too small only when size is above the bound.
resize_to_strict_bound(t, new_n_buckets, map, fail) ==
    IF t.count > __uhash_upper_bound(new_n_buckets)
    THEN [h |-> t, ok |-> TRUE, allocs |-> 0]
    ELSE IF fail = 1
    THEN [h |-> t, ok |-> FALSE, allocs |-> 1]
    ELSE IF t.n_buckets < new_n_buckets /\ fail = 2
    THEN [h |-> t, ok |-> FALSE, allocs |-> 2]
    ELSE IF t.n_buckets < new_n_buckets /\ map /\ fail = 3
    THEN [h |-> [t EXCEPT !.keys = realloc(t.keys, new_n_buckets)],
          ok |-> FALSE, allocs |-> 3]
    ELSE [h |-> resize_rehash(t, new_n_buckets, map),
          ok |-> TRUE,
          allocs |-> IF t.n_buckets < new_n_buckets THEN (IF map THEN 3 ELSE 2) ELSE 1]

\* resize_to settling n_occupied before it has its new flags.
resize_to_purges_first(t, new_n_buckets, map, fail) ==
    IF t.count >= __uhash_upper_bound(new_n_buckets)
    THEN [h |-> t, ok |-> TRUE, allocs |-> 0]
    ELSE IF fail = 1
    THEN [h |-> [t EXCEPT !.n_occupied = t.count], ok |-> FALSE, allocs |-> 1]
    ELSE IF t.n_buckets < new_n_buckets /\ fail = 2
    THEN [h |-> t, ok |-> FALSE, allocs |-> 2]
    ELSE IF t.n_buckets < new_n_buckets /\ map /\ fail = 3
    THEN [h |-> [t EXCEPT !.keys = realloc(t.keys, new_n_buckets)],
          ok |-> FALSE, allocs |-> 3]
    ELSE [h |-> resize_rehash(t, new_n_buckets, map),
          ok |-> TRUE,
          allocs |-> IF t.n_buckets < new_n_buckets THEN (IF map THEN 3 ELSE 2) ELSE 1]

(* fail = n > 0: the n-th allocation tested by the code from here on        *)
(* returns NULL; fail = 0: none does.  The result carries the table, the    *)
(* return value and the number of tested allocations attempted.             *)
\* Lines 316-398 for the rounded capacity new_n_buckets.
resize_to(t, new_n_buckets, map, fail) ==
    IF t.count >= __uhash_upper_bound(new_n_buckets)
    THEN [h |-> t, ok |-> TRUE, allocs |-> 0]
    ELSE IF fail = 1
    THEN [h |-> t, ok |-> FALSE, allocs |-> 1]
    ELSE IF t.n_buckets < new_n_buckets /\ fail = 2
    THEN [h |-> t, ok |-> FALSE, allocs |-> 2]
    ELSE IF t.n_buckets < new_n_buckets /\ map /\ fail = 3
    THEN [h |-> [t EXCEPT !.keys = realloc(t.keys, new_n_buckets)],
          ok |-> FALSE, allocs |-> 3]
    ELSE [h |-> resize_rehash(t, new_n_buckets, map),
          ok |-> TRUE,
          allocs |-> IF t.n_buckets < new_n_buckets THEN (IF map THEN 3 ELSE 2) ELSE 1]

uhash_resize(t, requested, map, fail) ==
    resize_to(t, round_up(__uhash_uint_next_power_2(requested)), map, fail)

(* what is left of the allocation failure after a call used k allocations  *)
fail_after(fail, k) == IF fail > k THEN fail - k ELSE 0

(* ------------------------------ uhash_put ------------------------------ *)
\* The probe loop of lines 433-442; the result is the loop's i, site and x.
\* put_probe keeping the first DELETED bucket it meets instead of the last.
RECURSIVE put_probe_keeps_first_site(_, _, _, _, _, _, _)
put_probe_keeps_first_site(t, key, mask, i, step, site, start) ==
    IF ~__uhf_isempty(t.flags, i)
       /\ (__uhf_isdel(t.flags, i) \/ ~__equal_func(t.keys[i], key))
    THEN LET site1 == IF __uhf_isdel(t.flags, i) /\ site = t.n_buckets
                      THEN i ELSE site
             step1 == uint(step + 1)
             i1 == BitAnd(uint(i + step1), mask)
         IN IF i1 = start THEN [i |-> i1, site |-> site1, x |-> site1]
            ELSE put_probe_keeps_first_site(t, key, mask, i1, step1, site1, start)
    ELSE [i |-> i, site |-> site, x |-> t.n_buckets]

RECURSIVE put_probe(_, _, _, _, _, _, _)
put_probe(t, key, mask, i, step, site, start) ==
    IF ~__uhf_isempty(t.flags, i)
       /\ (__uhf_isdel(t.flags, i) \/ ~__equal_func(t.keys[i], key))
    THEN LET site1 == IF __uhf_isdel(t.flags, i) THEN i ELSE site
             step1 == uint(step + 1)
             i1 == BitAnd(uint(i + step1), mask)
         IN IF i1 = start THEN [i |-> i1, site |-> site1, x |-> site1]
            ELSE put_probe(t, key, mask, i1, step1, site1, start)
    ELSE [i |-> i, site |-> site, x |-> t.n_buckets]

\* put_site taking the recorded tombstone whenever there is one.
put_site_prefers_tombstone(t, key) ==
    LET mask == uint(t.n_buckets - 1)
        i0 == BitAnd(uint(__hash_func(key)), mask)
    IN IF __uhf_isempty(t.flags, i0) THEN i0
       ELSE LET p == put_probe(t, key, mask, i0, 0, t.n_buckets, i0)
            IN IF p.x = t.n_buckets
               THEN (IF p.site # t.n_buckets THEN p.site ELSE p.i)
               ELSE p.x

\* Lines 420-448: the bucket x chosen for key.
put_choose(t, p) ==
    IF p.x = t.n_buckets
    THEN (IF __uhf_isempty(t.flags, p.i) /\ p.site # t.n_buckets THEN p.site ELSE p.i)
    ELSE p.x

put_from(t, key, mask, i0) ==
    IF __uhf_isempty(t.flags, i0) THEN i0
    ELSE put_choose(t, put_probe(t, key, mask, i0, 0, t.n_buckets, i0))

put_site(t, key) ==
    put_from(t, key, uint(t.n_buckets - 1),
             BitAnd(uint(__hash_func(key)), uint(t.n_buckets - 1)))

\* put_write without the branch that reuses a DELETED bucket.
put_write_skips_tombstone(t, key, x, allocs) ==
    LET idx == IF x = t.n_buckets THEN UHASH_INDEX_MISSING ELSE x
    IN IF __uhf_isempty(t.flags, x)
       THEN [h |-> [t EXCEPT !.keys[x] = key,
                             !.flags = __uhf_set_isboth_false(t.flags, x),
                             !.count = uint(t.count + 1),
                             !.n_occupied = uint(t.n_occupied + 1)],
             ret |-> UHASH_INSERTED, x |-> idx, allocs |-> allocs]
       ELSE [h |-> t, ret |-> UHASH_PRESENT, x |-> idx, allocs |-> allocs]

\* put_write counting a key only when it takes an EMPTY bucket.
put_write_reuse_uncounted(t, key, x, allocs) ==
    LET idx == IF x = t.n_buckets THEN UHASH_INDEX_MISSING ELSE x
    IN IF __uhf_isempty(t.flags, x)
       THEN [h |-> [t EXCEPT !.keys[x] = key,
                             !.flags = __uhf_set_isboth_false(t.flags, x),
                             !.count = uint(t.count + 1),
                             !.n_occupied = uint(t.n_occupied + 1)],
             ret |-> UHASH_INSERTED, x |-> idx, allocs |-> allocs]
       ELSE IF __uhf_isdel(t.flags, x)
       THEN [h |-> [t EXCEPT !.keys[x] = key,
                             !.flags = __uhf_set_isboth_false(t.flags, x)],
             ret |-> UHASH_INSERTED, x |-> idx, allocs |-> allocs]
       ELSE [h |-> t, ret |-> UHASH_PRESENT, x |-> idx, allocs |-> allocs]

\* put_write counting the key again when it is already stored.
put_write_present_recounts(t, key, x, allocs) ==
    LET idx == IF x = t.n_buckets THEN UHASH_INDEX_MISSING ELSE x
    IN IF __uhf_isempty(t.flags, x)
       THEN [h |-> [t EXCEPT !.keys[x] = key,
                             !.flags = __uhf_set_isboth_false(t.flags, x),
                             !.count = uint(t.count + 1),
                             !.n_occupied = uint(t.n_occupied + 1)],
             ret |-> UHASH_INSERTED, x |-> idx, allocs |-> allocs]
       ELSE IF __uhf_isdel(t.flags, x)
       THEN [h |-> [t EXCEPT !.keys[x] = key,
                             !.flags = __uhf_set_isboth_false(t.flags, x),
                             !.count = uint(t.count + 1)],
             ret |-> UHASH_INSERTED, x |-> idx, allocs |-> allocs]
       ELSE [h |-> [t EXCEPT !.count = uint(t.count + 1)],
             ret |-> UHASH_PRESENT, x |-> idx, allocs |-> allocs]

\* Lines 450-468: write the key at x and report.
put_write(t, key, x, allocs) ==
    LET idx == IF x = t.n_buckets THEN UHASH_INDEX_MISSING ELSE x
    IN IF __uhf_isempty(t.flags, x)
       THEN [h |-> [t EXCEPT !.keys[x] = key,
                             !.flags = __uhf_set_isboth_false(t.flags, x),
                             !.count = uint(t.count + 1),
                             !.n_occupied = uint(t.n_occupied + 1)],
             ret |-> UHASH_INSERTED, x |-> idx, allocs |-> allocs]
       ELSE IF __uhf_isdel(t.flags, x)
       THEN [h |-> [t EXCEPT !.keys[x] = key,
                             !.flags = __uhf_set_isboth_false(t.flags, x),
                             !.count = uint(t.count + 1)],
             ret |-> UHASH_INSERTED, x |-> idx, allocs |-> allocs]
       ELSE [h |-> t, ret |-> UHASH_PRESENT, x |-> idx, allocs |-> allocs]

\* put_resize growing whenever used has reached the upper bound.
put_resize_always_grows(t, map, fail) ==
    IF t.n_occupied >= __uhash_upper_bound(t.n_buckets)
    THEN uhash_resize(t, uint(t.n_buckets + 1), map, fail)
    ELSE [h |-> t, ok |-> TRUE, allocs |-> 0]

\* Lines 405-418: the resize a put starts with.
put_resize(t, map, fail) ==
    IF t.n_occupied >= __uhash_upper_bound(t.n_buckets)
    THEN uhash_resize(t,
                      IF t.n_buckets > t.count * 2
                      THEN uint(t.n_buckets - 1) ELSE uint(t.n_buckets + 1),
                      map, fail)
    ELSE [h |-> t, ok |-> TRUE, allocs |-> 0]

\* Lines 411-468 with pre the outcome of the resize.
put_after(pre, key) ==
    IF ~pre.ok
    THEN [h |-> pre.h, ret |-> UHASH_ERROR, x |-> UHASH_INDEX_MISSING,
          allocs |-> pre.allocs]
    ELSE put_write(pre.h, key, put_site(pre.h, key), pre.allocs)

\* uhash_put going on after a failed resize when the table still has a free bucket.
uhash_put_best_effort(t, key, map, fail) ==
    LET pre == put_resize(t, map, fail)
    IN IF ~pre.ok /\ (t.n_buckets = 0 \/ t.n_occupied >= t.n_buckets)
       THEN [h |-> pre.h, ret |-> UHASH_ERROR, x |-> UHASH_INDEX_MISSING,
             allocs |-> pre.allocs]
       ELSE put_write(pre.h, key, put_site(pre.h, key), pre.allocs)

uhash_put(t, key, map, fail) == put_after(put_resize(t, map, fail), key)

(* ----------------------------- uhash_delete ---------------------------- *)
\* uhash_delete that only counts.
uhash_delete_count_only(t, x) ==
    IF ~__uhf_iseither(t.flags, x)
    THEN [t EXCEPT !.count = uint(t.count - 1)]
    ELSE t

\* uhash_delete giving the bucket back as EMPTY.
uhash_delete_frees_bucket(t, x) ==
    IF ~__uhf_iseither(t.flags, x)
    THEN [t EXCEPT !.flags = [@ EXCEPT ![x] = 2],
                   !.count = uint(t.count - 1),
                   !.n_occupied = uint(t.n_occupied - 1)]
    ELSE t

uhash_delete(t, x) ==
    IF ~__uhf_iseither(t.flags, x)
    THEN [t EXCEPT !.flags = __uhf_set_isdel_true(t.flags, x),
                   !.count = uint(t.count - 1)]
    ELSE t

(* ----------------------------- uhash_clear ----------------------------- *)
\* uhash_clear forgetting the tombstones' share of n_occupied.
uhash_clear_keeps_used(t) ==
    IF DOMAIN t.flags # {}
    THEN [t EXCEPT !.flags = memset_flags(t.n_buckets), !.count = 0,
                   !.n_occupied = t.n_occupied - t.count]
    ELSE t

\* uhash_clear giving the storage back instead of resetting the flags.
uhash_clear_releases(t) == uhash_alloc

\* h->flags is NULL until the first rehash installs a flags array.
uhash_clear(t) ==
    IF DOMAIN t.flags # {}
    THEN [t EXCEPT !.flags = memset_flags(t.n_buckets), !.count = 0, !.n_occupied = 0]
    ELSE t

\* A handle that is NULL, and uhash_clear on a handle: line 283 tests the
\* handle before it tests h->flags.
null_handle == [null |-> TRUE]
uhash_clear_handle(p) == IF "null" \in DOMAIN p THEN p ELSE uhash_clear(p)

(* ------------------------------ map layer ------------------------------ *)
\* An out-parameter the call did not write keeps Unwritten.
Unwritten == Uninit - 1

\* Each operation of the two layers is the code after its call of
\* uhash_get or uhash_put, applied to what that call returned.
map_get_at(t, k, if_missing) ==
    IF k = UHASH_INDEX_MISSING THEN if_missing ELSE t.vals[k]

uhmap_get(t, key, if_missing) == map_get_at(t, uhash_get(t, key), if_missing)

\* map_set_at storing the value before it copies the old one out.
map_set_at_stores_first(p, value) ==
    IF p.ret # UHASH_ERROR
    THEN [h |-> [p.h EXCEPT !.vals[p.x] = value], ret |-> p.ret, x |-> p.x,
          existing |-> IF p.ret = UHASH_PRESENT THEN value ELSE Unwritten,
          allocs |-> p.allocs]
    ELSE [h |-> p.h, ret |-> p.ret, x |-> p.x, existing |-> Unwritten,
          allocs |-> p.allocs]

map_set_at(p, value) ==
    IF p.ret # UHASH_ERROR
    THEN [h |-> [p.h EXCEPT !.vals[p.x] = value], ret |-> p.ret, x |-> p.x,
          existing |-> IF p.ret = UHASH_PRESENT THEN p.h.vals[p.x] ELSE Unwritten,
          allocs |-> p.allocs]
    ELSE [h |-> p.h, ret |-> p.ret, x |-> p.x, existing |-> Unwritten,
          allocs |-> p.allocs]

uhmap_set(t, key, value, fail) == map_set_at(uhash_put(t, key, TRUE, fail), value)

\* map_add_at storing the value whatever the status, as uhmap_set does.
map_add_at_overwrites(p, value) ==
    IF p.ret = UHASH_INSERTED
    THEN [h |-> [p.h EXCEPT !.vals[p.x] = value], ret |-> p.ret, x |-> p.x,
          existing |-> Unwritten, allocs |-> p.allocs]
    ELSE IF p.ret = UHASH_PRESENT
    THEN [h |-> [p.h EXCEPT !.vals[p.x] = value], ret |-> p.ret, x |-> p.x,
          existing |-> p.h.vals[p.x], allocs |-> p.allocs]
    ELSE [h |-> p.h, ret |-> p.ret, x |-> p.x, existing |-> Unwritten,
          allocs |-> p.allocs]

map_add_at(p, value) ==
    IF p.ret = UHASH_INSERTED
    THEN [h |-> [p.h EXCEPT !.vals[p.x] = value], ret |-> p.ret, x |-> p.x,
          existing |-> Unwritten, allocs |-> p.allocs]
    ELSE IF p.ret = UHASH_PRESENT
    THEN [h |-> p.h, ret |-> p.ret, x |-> p.x, existing |-> p.h.vals[p.x],
          allocs |-> p.allocs]
    ELSE [h |-> p.h, ret |-> p.ret, x |-> p.x, existing |-> Unwritten,
          allocs |-> p.allocs]

uhmap_add(t, key, value, fail) == map_add_at(uhash_put(t, key, TRUE, fail), value)

map_replace_at(t, k, value) ==
    IF k = UHASH_INDEX_MISSING
    THEN [h |-> t, ret |-> FALSE, replaced |-> Unwritten]
    ELSE [h |-> [t EXCEPT !.vals[k] = value], ret |-> TRUE, replaced |-> t.vals[k]]

\* uhmap_replace done with a put: an absent key is inserted.
uhmap_replace_or_insert(t, key, value) ==
    [h |-> uhmap_set(t, key, value, 0).h,
     ret |-> uhmap_set(t, key, value, 0).ret = UHASH_PRESENT,
     replaced |-> uhmap_set(t, key, value, 0).existing]

uhmap_replace(t, key, value) == map_replace_at(t, uhash_get(t, key), value)

\* map_remove_at copying the pair out without deleting the bucket.
map_remove_at_keeps_entry(t, k) ==
    IF k = UHASH_INDEX_MISSING
    THEN [h |-> t, ret |-> FALSE, r_key |-> Unwritten, r_val |-> Unwritten]
    ELSE [h |-> t, ret |-> TRUE, r_key |-> t.keys[k], r_val |-> t.vals[k]]

map_remove_at(t, k) ==
    IF k = UHASH_INDEX_MISSING
    THEN [h |-> t, ret |-> FALSE, r_key |-> Unwritten, r_val |-> Unwritten]
    ELSE [h |-> uhash_delete(t, k), ret |-> TRUE,
          r_key |-> t.keys[k], r_val |-> t.vals[k]]

uhmap_remove(t, key) == map_remove_at(t, uhash_get(t, key))

(* ------------------------------ set layer ------------------------------ *)
set_insert_at(p) ==
    [h |-> p.h, ret |-> p.ret, x |-> p.x,
     existing |-> IF p.ret = UHASH_PRESENT THEN p.h.keys[p.x] ELSE Unwritten,
     allocs |-> p.allocs]

uhset_insert(t, key, fail) == set_insert_at(uhash_put(t, key, FALSE, fail))

\* The loop of lines 563-567 from element i on (items is 1-based here);
\* done counts the elements whose insert did not report UHASH_ERROR.
\* insert_all_step is lines 565-566 with l the outcome of the insert.
RECURSIVE insert_all_loop(_, _, _, _, _, _, _)
RECURSIVE insert_all_step(_, _, _, _, _, _, _)
\* insert_all_step reporting the status of the last insert only.
insert_all_step_last_status(l, items, i, n, ret, fail, allocs) ==
    IF l.ret = UHASH_ERROR
    THEN [h |-> l.h, ret |-> UHASH_ERROR, done |-> i, allocs |-> allocs + l.allocs]
    ELSE insert_all_loop(l.h, items, i + 1, n, l.ret,
                         fail_after(fail, l.allocs), allocs + l.allocs)

insert_all_step(l, items, i, n, ret, fail, allocs) ==
    IF l.ret = UHASH_ERROR
    THEN [h |-> l.h, ret |-> UHASH_ERROR, done |-> i, allocs |-> allocs + l.allocs]
    ELSE insert_all_loop(l.h, items, i + 1, n,
                         IF l.ret = UHASH_INSERTED THEN UHASH_INSERTED ELSE ret,
                         fail_after(fail, l.allocs), allocs + l.allocs)

insert_all_loop(t, items, i, n, ret, fail, allocs) ==
    IF i < n
    THEN insert_all_step(uhset_insert(t, items[i + 1], fail), items, i, n, ret, fail, allocs)
    ELSE [h |-> t, ret |-> ret, done |-> n, allocs |-> allocs]

\* Lines 560-569 with r the outcome of the initial resize.
insert_all_after(r, items, n, fail) ==
    IF ~r.ok THEN [h |-> r.h, ret |-> UHASH_ERROR, done |-> 0, allocs |-> r.allocs]
    ELSE insert_all_loop(r.h, items, 0, n, UHASH_PRESENT,
                         fail_after(fail, r.allocs), r.allocs)

\* uhset_insert_all without the resize it starts with.
insert_all_presize_none(t, n, fail) == [h |-> t, ok |-> TRUE, allocs |-> 0]

\* Line 560: the resize uhset_insert_all starts with.
insert_all_presize(t, n, fail) == uhash_resize(t, n, FALSE, fail)

uhset_insert_all(t, items, n, fail) ==
    insert_all_after(insert_all_presize(t, n, fail), items, n, fail)

set_replace_at(t, k, key) ==
    IF k = UHASH_INDEX_MISSING
    THEN [h |-> t, ret |-> FALSE, replaced |-> Unwritten]
    ELSE [h |-> [t EXCEPT !.keys[k] = key], ret |-> TRUE, replaced |-> t.keys[k]]

uhset_replace(t, key) == set_replace_at(t, uhash_get(t, key), key)

set_remove_at(t, k) ==
    IF k = UHASH_INDEX_MISSING
    THEN [h |-> t, ret |-> FALSE, removed |-> Unwritten]
    ELSE [h |-> uhash_delete(t, k), ret |-> TRUE, removed |-> t.keys[k]]

uhset_remove(t, key) == set_remove_at(t, uhash_get(t, key))

\* is_superset_from ending its walk of h2 at the first bucket that is not
\* OCCUPIED.
RECURSIVE is_superset_from_stops_at_gap(_, _, _)
is_superset_from_stops_at_gap(h1, h2, i) ==
    IF i # h2.n_buckets /\ uhash_exists(h2, i)
    THEN IF uhash_get(h1, h2.keys[i]) = UHASH_INDEX_MISSING THEN FALSE
         ELSE is_superset_from_stops_at_gap(h1, h2, i + 1)
    ELSE TRUE

\* The loop of lines 592-596 from bucket i of h2 on.
RECURSIVE is_superset_from(_, _, _)
is_superset_from(h1, h2, i) ==
    IF i # h2.n_buckets
    THEN IF uhash_exists(h2, i) /\ uhash_get(h1, h2.keys[i]) = UHASH_INDEX_MISSING
         THEN FALSE
         ELSE is_superset_from(h1, h2, i + 1)
    ELSE TRUE

uhset_is_superset(h1, h2) == is_superset_from(h1, h2, 0)

\* uhset_equals without the comparison of the sizes.
uhset_equals_superset_only(h1, h2) == uhset_is_superset(h1, h2)

uhset_equals(h1, h2) == h1.count = h2.count /\ uhset_is_superset(h1, h2)

\* hash_from combining the hashes in bucket order, hash * 31 + next.
RECURSIVE hash_from_in_bucket_order(_, _, _)
hash_from_in_bucket_order(t, i, hash) ==
    IF i # t.n_buckets
    THEN hash_from_in_bucket_order(t, i + 1,
                   IF uhash_exists(t, i)
                   THEN uint(hash * 31 + uint(__hash_func(t.keys[i]))) ELSE hash)
    ELSE hash

\* The loop of lines 603-605 from bucket i on.
RECURSIVE hash_from(_, _, _)
hash_from(t, i, hash) ==
    IF i # t.n_buckets
    THEN hash_from(t, i + 1,
                   IF uhash_exists(t, i)
                   THEN BitXor(hash, uint(__hash_func(t.keys[i]))) ELSE hash)
    ELSE hash

uhset_hash(t) == hash_from(t, 0, 0)

\* The loop of line 612 from bucket i on.
RECURSIVE get_any_from(_, _)
get_any_from(t, i) ==
    IF i # t.n_buckets /\ ~uhash_exists(t, i) THEN get_any_from(t, i + 1) ELSE i

\* uhset_get_any returning the key slot of the first bucket that is not
\* EMPTY, a tombstone included.
uhset_get_any_first_used(t, if_empty) ==
    LET used == {i \in 0..(t.n_buckets - 1) : ~__uhf_isempty(t.flags, i)}
    IN IF used = {} THEN if_empty
       ELSE t.keys[CHOOSE i \in used : \A j \in used : i <= j]

uhset_get_any(t, if_empty) ==
    IF get_any_from(t, 0) = t.n_buckets THEN if_empty ELSE t.keys[get_any_from(t, 0)]

(* ------------------------------- lookups ------------------------------- *)
\* A lookup as a call: the table it leaves and what it returns. The table is
\* passed as UHash_T const * and no statement of the lookups assigns to it.

\* A lookup written with uhash_put: a key it does not find is inserted.
uhash_get_call_inserts(t, key) ==
    LET p == uhash_put(t, key, t.vals # << >>, 0)
    IN [h |-> p.h,
        ret |-> IF p.ret = UHASH_PRESENT THEN p.x ELSE UHASH_INDEX_MISSING]

uhash_get_call(t, key) == [h |-> t, ret |-> uhash_get(t, key)]

uhash_contains_call(t, key) ==
    LET g == uhash_get_call(t, key)
    IN [h |-> g.h, ret |-> g.ret # UHASH_INDEX_MISSING]

uhmap_get_call(t, key, if_missing) ==
    LET g == uhash_get_call(t, key)
    IN [h |-> g.h, ret |-> map_get_at(g.h, g.ret, if_missing)]

RECURSIVE is_superset_call_from(_, _, _)
is_superset_call_from(h1, h2, i) ==
    IF i # h2.n_buckets
    THEN IF uhash_exists(h2, i)
         THEN LET g == uhash_get_call(h1, h2.keys[i])
              IN IF g.ret = UHASH_INDEX_MISSING
                 THEN [h |-> g.h, ret |-> FALSE]
                 ELSE is_superset_call_from(g.h, h2, i + 1)
         ELSE is_superset_call_from(h1, h2, i + 1)
    ELSE [h |-> h1, ret |-> TRUE]

uhset_is_superset_call(h1, h2) == is_superset_call_from(h1, h2, 0)

uhset_hash_call(t) == [h |-> t, ret |-> uhset_hash(t)]

uhset_get_any_call(t, if_empty) == [h |-> t, ret |-> uhset_get_any(t, if_empty)]

(* ------------------------------- the state ----------------------------- *)
\* h          the table (UHash_T)
\* uhash_map  the instantiation: TRUE a map, FALSE a set
\* model      the keys whose last put did not report UHASH_ERROR and whose
\*            bucket was not deleted since, each with the value the map
\*            layer last associated with it
\* h: the table; uhash_map: the instantiation (map or set); model: the keys
\* put and not deleted since, with their last value; peak: the largest size
\* the table had so far, kept by the actions of GrowthSpec; call: the call
\* in flight, with the position it has reached, in the specifications that
\* run a call loop iteration by loop iteration.
VARIABLES h, uhash_map, model, peak, call

vars == <<h, uhash_map, model, peak, call>>

\* No call is in flight.
Idle == [op |-> "idle", pc |-> "idle"]

Without(m, k) == [q \in DOMAIN m \ {k} |-> m[q]]
With(m, k, v) == [q \in DOMAIN m \cup {k} |-> IF q = k THEN v ELSE m[q]]

Init ==
    /\ h = uhash_alloc
    /\ uhash_map \in BOOLEAN
    /\ model = [q \in {} |-> 0]
    /\ peak = 0
    /\ call = Idle


\* The table between two calls: what a bucket that is not OCCUPIED holds in
\* keys and vals is dead storage.
Observable(t) ==
    [t EXCEPT !.keys = [i \in DOMAIN t.keys |->
                          IF i < t.n_buckets /\ uhash_exists(t, i) THEN t.keys[i]
                          ELSE Uninit],
              !.vals = [i \in DOMAIN t.vals |->
                          IF i < t.n_buckets /\ uhash_exists(t, i) THEN t.vals[i]
                          ELSE Uninit]]

(* ------------------------------- actions ------------------------------- *)
\* The allocation failures a call can meet: fail = 0, no tested allocation
\* returns NULL; fail = n, the n-th of the allocs it would make does.
Fails(allocs) == 0..allocs

\* uhash_put(T, h, k, &ret) on a set
Put(k) ==
    /\ ~uhash_map
    /\ \E p0 \in {uhash_put(h, k, FALSE, 0)} :
       \E fail \in Fails(p0.allocs) :
       \E p \in {IF fail = 0 THEN p0 ELSE uhash_put(h, k, FALSE, fail)} :
          /\ p.h.n_buckets <= MaxBuckets
          /\ h' = Observable(p.h)
          /\ model' = IF p.ret = UHASH_ERROR THEN model ELSE With(model, k, 0)
    /\ UNCHANGED <<uhash_map, peak, call>>

\* uhash_delete(T, h, x) on a set, x a bucket of the table
Delete(x) ==
    /\ ~uhash_map
    /\ x < h.n_buckets
    /\ h' = Observable(uhash_delete(h, x))
    /\ model' = IF uhash_exists(h, x) THEN Without(model, h.keys[x]) ELSE model
    /\ UNCHANGED <<uhash_map, peak, call>>

\* uhash_resize(T, h, s)
Resize(s) ==
    /\ \E r0 \in {uhash_resize(h, s, uhash_map, 0)} :
       \E fail \in Fails(r0.allocs) :
       \E r \in {IF fail = 0 THEN r0 ELSE uhash_resize(h, s, uhash_map, fail)} :
          /\ r0.h.n_buckets <= MaxBuckets
          /\ h' = Observable(r.h)
    /\ UNCHANGED <<uhash_map, model, peak, call>>

\* uhash_clear(T, h)
Clear ==
    /\ h' = Observable(uhash_clear(h))
    /\ model' = [q \in {} |-> 0]
    /\ UNCHANGED <<uhash_map, peak, call>>

\* uhmap_set(T, h, k, v, &existing)
MapSet(k, v) ==
    /\ uhash_map
    /\ \E p0 \in {uhmap_set(h, k, v, 0)} :
       \E fail \in Fails(p0.allocs) :
       \E p \in {IF fail = 0 THEN p0 ELSE uhmap_set(h, k, v, fail)} :
          /\ p0.h.n_buckets <= MaxBuckets
          /\ h' = Observable(p.h)
          /\ model' = IF p.ret = UHASH_ERROR THEN model ELSE With(model, k, v)
    /\ UNCHANGED <<uhash_map, peak, call>>

\* uhmap_add(T, h, k, v, &existing)
MapAdd(k, v) ==
    /\ uhash_map
    /\ \E p0 \in {uhmap_add(h, k, v, 0)} :
       \E fail \in Fails(p0.allocs) :
       \E p \in {IF fail = 0 THEN p0 ELSE uhmap_add(h, k, v, fail)} :
          /\ p0.h.n_buckets <= MaxBuckets
          /\ h' = Observable(p.h)
          /\ model' = IF p.ret = UHASH_INSERTED THEN With(model, k, v) ELSE model
    /\ UNCHANGED <<uhash_map, peak, call>>

\* uhmap_replace(T, h, k, v, &replaced)
MapReplace(k, v) ==
    /\ uhash_map
    /\ \E p \in {uhmap_replace(h, k, v)} :
          /\ h' = Observable(p.h)
          /\ model' = IF p.ret THEN With(model, k, v) ELSE model
    /\ UNCHANGED <<uhash_map, peak, call>>

\* uhmap_pop(T, h, k, &r_key, &r_val)
MapRemove(k) ==
    /\ uhash_map
    /\ \E p \in {uhmap_remove(h, k)} :
          /\ h' = Observable(p.h)
          /\ model' = IF p.ret THEN Without(model, k) ELSE model
    /\ UNCHANGED <<uhash_map, peak, call>>

\* The arrays handed to uhset_insert_all: every sequence of at most MaxItems keys.
ItemArrays == UNION {[1..n -> Keys] : n \in 0..MaxItems}

\* uhset_insert_all(T, h, a, n)
SetInsertAll(items) ==
    /\ ~uhash_map
    /\ \E p0 \in {uhset_insert_all(h, items, Len(items), 0)} :
       \E fail \in Fails(p0.allocs) :
       \E p \in {IF fail = 0 THEN p0 ELSE uhset_insert_all(h, items, Len(items), fail)} :
          /\ p0.h.n_buckets <= MaxBuckets
          /\ h' = Observable(p.h)
          /\ model' = [q \in DOMAIN model \cup {items[j] : j \in 1..p.done} |-> 0]
    /\ UNCHANGED <<uhash_map, peak, call>>

\* uhset_replace(T, h, k, &replaced)
SetReplace(k) ==
    /\ ~uhash_map
    /\ \E p \in {uhset_replace(h, k)} :
          /\ h' = Observable(p.h)
    /\ UNCHANGED <<uhash_map, model, peak, call>>

\* The sizes asked of uhash_resize.
Requests == {0, 4, 5}

Next ==
    \/ \E k \in Keys : Put(k)
    \/ \E x \in 0..(MaxBuckets - 1) : Delete(x)
    \/ \E s \in Requests : Resize(s)
    \/ Clear
    \/ \E k \in Keys, v \in Vals : MapSet(k, v)
    \/ \E k \in Keys, v \in Vals : MapAdd(k, v)
    \/ \E k \in Keys, v \in Vals : MapReplace(k, v)
    \/ \E k \in Keys : MapRemove(k)
    \/ \E items \in ItemArrays : SetInsertAll(items)
    \/ \E k \in Keys : SetReplace(k)

Spec == Init /\ [][Next]_vars

(* ------------------------- notions of the claims ----------------------- *)
Buckets(t) == 0..(t.n_buckets - 1)
Occupied(t) == {i \in Buckets(t) : uhash_exists(t, i)}
Tombstones(t) == {i \in Buckets(t) : __uhf_isdel(t.flags, i) /\ ~__uhf_isempty(t.flags, i)}
StoredKeys(t) == {t.keys[i] : i \in Occupied(t)}

\* What a caller can tell of a table: capacity, size, used, the state of
\* every bucket, and the key and value of every OCCUPIED bucket.
View(t) ==
    [n_buckets |-> t.n_buckets, count |-> t.count, n_occupied |-> t.n_occupied,
     flags |-> [i \in Buckets(t) |-> t.flags[i]],
     keys |-> [i \in Occupied(t) |-> t.keys[i]],
     vals |-> [i \in Occupied(t) \cap DOMAIN t.vals |-> t.vals[i]]]

\* Sizes a caller may ask of uhash_resize: one that rounds to each capacity
\* up to MaxBuckets and one that rounds past it.
AnyRequest == Requests \cup {MaxBuckets + 1}

\* A table whose dead slots all hold q instead of Uninit.
Stale(t, q) ==
    [t EXCEPT !.keys = [i \in DOMAIN t.keys |-> IF t.keys[i] = Uninit THEN q ELSE t.keys[i]],
              !.vals = [i \in DOMAIN t.vals |-> IF t.vals[i] = Uninit THEN q ELSE t.vals[i]]]

\* No call's outcome depends on what the dead slots hold.
DeadSlotsUnread ==
    \A q \in Keys \cup Vals :
        LET g == Stale(h, q)
        IN /\ \A k \in Keys : uhash_get(g, k) = uhash_get(h, k)
           /\ \A k \in Keys, fail \in 0..3 :
                 LET a == uhash_put(g, k, uhash_map, fail)
                     b == uhash_put(h, k, uhash_map, fail)
                 IN /\ a.ret = b.ret /\ a.x = b.x
                    \* the value of a bucket uhash_put has just filled is the caller's to write
                    /\ View([a.h EXCEPT !.vals = << >>]) = View([b.h EXCEPT !.vals = << >>])
           /\ \A s \in AnyRequest, fail \in 0..3 :
                 LET a == uhash_resize(g, s, uhash_map, fail)
                     b == uhash_resize(h, s, uhash_map, fail)
                 IN a.ok = b.ok /\ View(a.h) = View(b.h)
           /\ \A x \in Buckets(h) : View(uhash_delete(g, x)) = View(uhash_delete(h, x))
           /\ View(uhash_clear(g)) = View(uhash_clear(h))
           /\ uhash_map =>
                 \A k \in Keys, v \in Vals :
                    /\ uhmap_get(g, k, v) = uhmap_get(h, k, v)
                    /\ uhmap_replace(g, k, v).replaced = uhmap_replace(h, k, v).replaced
                    /\ uhmap_remove(g, k).r_val = uhmap_remove(h, k).r_val
                    /\ \A fail \in 0..3 :
                          /\ uhmap_set(g, k, v, fail).existing = uhmap_set(h, k, v, fail).existing
                          /\ uhmap_add(g, k, v, fail).existing = uhmap_add(h, k, v, fail).existing
                          /\ View(uhmap_set(g, k, v, fail).h) = View(uhmap_set(h, k, v, fail).h)
                          /\ View(uhmap_add(g, k, v, fail).h) = View(uhmap_add(h, k, v, fail).h)
           /\ ~uhash_map =>
                 /\ \A k \in Keys : View(uhset_replace(g, k).h) = View(uhset_replace(h, k).h)
                 /\ \A items \in ItemArrays, fail \in 0..3 :
                       LET a == uhset_insert_all(g, items, Len(items), fail)
                           b == uhset_insert_all(h, items, Len(items), fail)
                       IN a.ret = b.ret /\ View(a.h) = View(b.h)

\* The key and value held by every OCCUPIED bucket (a set stores no value).
Entries(t) ==
    {<<t.keys[i], IF i \in DOMAIN t.vals THEN t.vals[i] ELSE Uninit>> : i \in Occupied(t)}

\* Some live key sits away from the bucket its hash names.
Displaced(t) ==
    \E i \in Occupied(t) : i # BitAnd(uint(__hash_func(t.keys[i])), t.n_buckets - 1)

(* ------------------------------- claims -------------------------------- *)

\* C1: after any sequence of calls, failing ones included, uhash_get of a key
\* whose last put did not report UHASH_ERROR and whose bucket was not deleted
\* since returns an index below n_buckets of an OCCUPIED bucket holding a
\* key equal to it.
C1_LiveKeysFound ==
    \A k \in DOMAIN model :
        LET i == uhash_get(h, k)
        IN /\ i # UHASH_INDEX_MISSING
           /\ i < h.n_buckets
           /\ uhash_exists(h, i)
           /\ __equal_func(h.keys[i], k)

\* C1: three live keys, one of them displaced, in a table that has a tombstone.
C1_Witness ==
    /\ Cardinality(DOMAIN model) >= 3
    /\ Tombstones(h) # {}
    /\ Displaced(h)
    /\ \A k \in DOMAIN model : uhash_get(h, k) \in Occupied(h)

\* C2: uhash_get of a key that was never put, or whose bucket was deleted
\* after its last put, returns UHASH_INDEX_MISSING, also when n_buckets is 0.
C2_AbsentKeysMissing ==
    /\ \A k \in Keys \ DOMAIN model : uhash_get(h, k) = UHASH_INDEX_MISSING
    /\ h.n_buckets = 0 => \A k \in Keys : uhash_get(h, k) = UHASH_INDEX_MISSING

\* C2: a lookup of an absent key that walks over a live key and a tombstone.
C2_Witness ==
    /\ Tombstones(h) # {}
    /\ DOMAIN model # {}
    /\ \E k \in Keys \ DOMAIN model :
          /\ uhash_get(h, k) = UHASH_INDEX_MISSING
          /\ ~__uhf_isempty(h.flags, BitAnd(uint(__hash_func(k)), h.n_buckets - 1))

\* C3: when no allocation fails, uhash_put returns UHASH_INSERTED exactly
\* when no bucket held an equal key before the call and UHASH_PRESENT exactly
\* when one did, and its index names an OCCUPIED bucket below n_buckets that
\* holds a key equal to the one put.
C3_PutStatus ==
    \A k \in Keys :
        LET p == uhash_put(h, k, uhash_map, 0)
        IN /\ p.ret = UHASH_INSERTED <=> k \notin StoredKeys(h)
           /\ p.ret = UHASH_PRESENT <=> k \in StoredKeys(h)
           /\ p.x < p.h.n_buckets
           /\ uhash_exists(p.h, p.x)
           /\ __equal_func(p.h.keys[p.x], k)

\* C3: in a table with a tombstone, one put finds its key and another
\* inserts a new key after growing the table.
C3_Witness ==
    /\ Tombstones(h) # {}
    /\ \E k \in Keys : uhash_put(h, k, uhash_map, 0).ret = UHASH_PRESENT
    /\ \E k \in Keys :
          LET p == uhash_put(h, k, uhash_map, 0)
          IN p.ret = UHASH_INSERTED /\ p.allocs > 0 /\ p.h.n_buckets > h.n_buckets

\* C4: in a map, uhmap_get of a key returns the value of the last uhmap_set,
\* successful uhmap_add or uhmap_replace of that key when the key is live and
\* the caller's default otherwise: no rehash pairs a key with another value.
C4_MapRefinement ==
    uhash_map =>
        \A k \in Keys, d \in Vals \cup {Unwritten} :
            uhmap_get(h, k, d) = IF k \in DOMAIN model THEN model[k] ELSE d

\* C4: a map with two keys of different values, one displaced, and a tombstone.
C4_Witness ==
    /\ uhash_map
    /\ \E k1, k2 \in DOMAIN model : model[k1] # model[k2]
    /\ Displaced(h)
    /\ Tombstones(h) # {}
    /\ h.n_buckets = 8

C6_NoDuplicateKeys ==
    \A i, j \in Occupied(h) : i # j => ~__equal_func(h.keys[i], h.keys[j])

\* C6: a put of a present key whose walk passes a tombstone before it finds it.
C6_Witness ==
    /\ Cardinality(Occupied(h)) >= 2
    /\ \E k \in StoredKeys(h) :
          LET mask == uint(h.n_buckets - 1)
              i0 == BitAnd(uint(__hash_func(k)), mask)
              p == put_probe(h, k, mask, i0, 0, h.n_buckets, i0)
          IN /\ ~__uhf_isempty(h.flags, i0)
             /\ p.site # h.n_buckets
             /\ uhash_put(h, k, uhash_map, 0).ret = UHASH_PRESENT

\* C7: when an allocation of the resize a uhash_put needs fails, the put
\* returns UHASH_ERROR with index UHASH_INDEX_MISSING, the key is not
\* inserted and the table is as it was.
C7_PutAllocationFailure ==
    \A k \in Keys :
        \A fail \in 1..uhash_put(h, k, uhash_map, 0).allocs :
            LET p == uhash_put(h, k, uhash_map, fail)
            IN /\ p.ret = UHASH_ERROR
               /\ p.x = UHASH_INDEX_MISSING
               /\ View(p.h) = View(h)
               /\ StoredKeys(p.h) = StoredKeys(h)

\* C7: a put of a new key into a map of three keys whose growth fails at the
\* third allocation.
C7_Witness ==
    /\ h.count >= 3
    /\ \E k \in Keys \ StoredKeys(h) :
          /\ uhash_put(h, k, uhash_map, 0).allocs = 3
          /\ uhash_put(h, k, uhash_map, 3).ret = UHASH_ERROR

\* C8: when any of the allocations of uhash_resize fails (the new flags,
\* the keys, the values), it returns false and the table is as it was.
C8_ResizeAllocationFailure ==
    \A s \in AnyRequest :
        \A fail \in 1..uhash_resize(h, s, uhash_map, 0).allocs :
            LET r == uhash_resize(h, s, uhash_map, fail)
            IN ~r.ok /\ View(r.h) = View(h)

\* C8: a map with keys and a tombstone for which each of the three
\* allocations of a growing resize can fail.
C8_Witness ==
    /\ h.count >= 2
    /\ Tombstones(h) # {}
    /\ \E s \in AnyRequest :
          /\ uhash_resize(h, s, uhash_map, 0).allocs = 3
          /\ \A fail \in 1..3 : ~uhash_resize(h, s, uhash_map, fail).ok
          /\ DOMAIN uhash_resize(h, s, uhash_map, 3).h.keys # DOMAIN h.keys

\* The arrays of no, one and two keys, the two keys equal or not.
ShortArrays == {<< >>} \cup {<<k>> : k \in Keys} \cup {<<k, q>> : k, q \in Keys}

RECURSIVE delete_each(_, _)
delete_each(t, S) ==
    IF S = {} THEN t
    ELSE LET x == CHOOSE y \in S : TRUE IN delete_each(uhash_delete(t, x), S \ {x})

\* C10: uhash_delete of an OCCUPIED bucket makes it DELETED and size one
\* less, and leaves used, capacity and every other bucket as they were; of an
\* EMPTY or DELETED bucket inside the table it changes nothing; so deleting
\* every key leaves size 0 and used as it was.
C10_DeleteFrame ==
    /\ \A x \in Buckets(h) :
          LET d == uhash_delete(h, x)
          IN IF uhash_exists(h, x)
             THEN /\ x \in Tombstones(d)
                  /\ d.count = h.count - 1
                  /\ d.n_occupied = h.n_occupied
                  /\ d.n_buckets = h.n_buckets
                  /\ \A i \in Buckets(h) \ {x} :
                        /\ d.flags[i] = h.flags[i]
                        /\ i \in Occupied(h) =>
                              d.keys[i] = h.keys[i] /\ d.vals = h.vals
             ELSE d = h
    /\ LET e == delete_each(h, Occupied(h))
       IN e.count = 0 /\ e.n_occupied = h.n_occupied /\ Occupied(e) = {}

\* C10: a table where a delete can hit an OCCUPIED, a DELETED and an EMPTY bucket.
C10_Witness ==
    /\ Cardinality(Occupied(h)) >= 2
    /\ Tombstones(h) # {}
    /\ \E x \in Buckets(h) : __uhf_isempty(h.flags, x)
    /\ h.n_occupied > h.count

(* ------------------- uhash_delete with any index ----------------------- *)
\* uhash_delete (lines 471-476) tests no bound: it reads the two flag bits of
\* index x whatever x is.  Inside the flags array (16 buckets a word, so
\* also the padding bits past n_buckets, which the memset left EMPTY) that
\* is the code of uhash_delete.  Outside it, and when flags is still NULL,
\* the read is out of bounds: the call may trap, may read bits that are not
\* both clear and return, or may read two clear bits, set a bit outside the
\* array and decrement count.
delete_outcomes(t, x) ==
    IF x \in DOMAIN t.flags
    THEN {[h |-> uhash_delete(t, x), trap |-> FALSE, out_of_bounds |-> FALSE]}
    ELSE {[h |-> t, trap |-> TRUE, out_of_bounds |-> TRUE],
          [h |-> t, trap |-> FALSE, out_of_bounds |-> TRUE],
          [h |-> [t EXCEPT !.count = uint(t.count - 1)],
           trap |-> FALSE, out_of_bounds |-> TRUE]}

\* Indexes at or past the capacity: the next ones, the first past a flags
\* word, and the index a failed lookup returns.
OutsideIndexes(t) == {t.n_buckets, t.n_buckets + 1, 16, UHASH_INDEX_MISSING}

\* C11 as stated: uhash_delete with an index at or past the capacity (also
\* UHASH_INDEX_MISSING, also on a table of capacity 0) reads nothing outside
\* the table, does not fail and leaves the table as it was.
C11_AsStated ==
    \A x \in OutsideIndexes(h) :
        \A o \in delete_outcomes(h, x) :
            ~o.trap /\ ~o.out_of_bounds /\ View(o.h) = View(h)

\* C12: putting a key that is absent and then deleting the bucket the put
\* returned brings size back to what it was and leaves the key absent (and
\* the stored keys as they were), also when the put resized the table.
C12_PutDeleteRoundTrip ==
    \A k \in Keys \ StoredKeys(h) :
        LET p == uhash_put(h, k, uhash_map, 0)
            d == uhash_delete(p.h, p.x)
        IN /\ p.ret = UHASH_INSERTED
           /\ d.count = h.count
           /\ uhash_get(d, k) = UHASH_INDEX_MISSING
           /\ StoredKeys(d) = StoredKeys(h)

\* C12: a table with two keys and a tombstone where the put of an absent
\* key starts with a resize that grows the table.
C12_Witness ==
    /\ h.count >= 2
    /\ Tombstones(h) # {}
    /\ \E k \in Keys \ StoredKeys(h) :
          LET p == uhash_put(h, k, uhash_map, 0)
          IN p.allocs > 0 /\ p.h.n_buckets > h.n_buckets /\ p.ret = UHASH_INSERTED

\* C13: uhash_clear makes every bucket EMPTY and size and used 0 and keeps
\* the capacity, so that every uhash_get afterwards returns
\* UHASH_INDEX_MISSING and any key can be put again; on a table of capacity
\* 0, and on a NULL handle, it changes nothing.
C13_Clear ==
    LET c == uhash_clear_handle(h)
    IN /\ uhash_clear_handle(null_handle) = null_handle
       /\ h.n_buckets = 0 => c = h
       /\ h.n_buckets > 0 =>
             /\ \A i \in Buckets(h) :
                   __uhf_isempty(c.flags, i) /\ ~__uhf_isdel(c.flags, i)
             /\ c.count = 0
             /\ c.n_occupied = 0
             /\ c.n_buckets = h.n_buckets
             /\ \A k \in Keys :
                   /\ uhash_get(c, k) = UHASH_INDEX_MISSING
                   /\ LET p == uhash_put(c, k, uhash_map, 0)
                      IN /\ p.ret = UHASH_INSERTED
                         /\ p.h.n_buckets = h.n_buckets
                         /\ uhash_get(p.h, k) = p.x

\* C13: a clear of a table of capacity 8 that holds three keys and a tombstone.
C13_Witness ==
    /\ h.n_buckets = 8
    /\ h.count >= 3
    /\ Tombstones(h) # {}
    /\ uhash_clear_handle(h).count = 0

\* The smallest power of two that is at least n and at least 4, as a number
\* (not as a value of the index type).
SmallestPow2AtLeast(n) ==
    CHOOSE p \in Pow2 : p >= n /\ p >= 4 /\ \A q \in Pow2 : (q >= n /\ q >= 4) => p <= q

\* Requests over the whole range of the index type: small ones, one around
\* each capacity of the model, and the ones around half the range and at its end.
WideRequests ==
    AnyRequest \cup {1, 2, 3, 7, 8, 9, Wrap \div 2 - 1, Wrap \div 2, Wrap \div 2 + 1,
                     UHASH_UINT_MAX - 1, UHASH_UINT_MAX}

\* C14: uhash_resize(requested) with size >= upper_bound(P), P the request
\* rounded up to a power of two and to at least 4, returns true and changes
\* nothing: capacity, size, used, every flag (tombstones included), every
\* key and value stay, and no allocation is attempted.
C14_ResizeTooSmall ==
    \A s \in WideRequests, fail \in 0..3 :
        h.count >= __uhash_upper_bound(SmallestPow2AtLeast(s)) =>
            LET r == uhash_resize(h, s, uhash_map, fail)
            IN r.ok /\ r.h = h /\ r.allocs = 0

\* C14: a table of capacity 8 with a tombstone whose size is the upper bound
\* of capacity 4, asked to shrink to 4.
C14_Witness ==
    /\ h.n_buckets = 8
    /\ Tombstones(h) # {}
    /\ h.count = __uhash_upper_bound(4)
    /\ \E s \in WideRequests :
          /\ SmallestPow2AtLeast(s) < h.n_buckets
          /\ h.count >= __uhash_upper_bound(SmallestPow2AtLeast(s))
          /\ uhash_resize(h, s, uhash_map, 0).ok

\* C15 as stated: for every request of the index type, a uhash_resize that
\* returns true and rehashes sets the capacity to the smallest power of two
\* that is at least the request and at least 4, and after any uhash_resize
\* that returns true the capacity is at least the request.
C15_AsStated ==
    \A s \in WideRequests :
        LET r == uhash_resize(h, s, uhash_map, 0)
        IN /\ (r.ok /\ r.allocs > 0) => r.h.n_buckets = SmallestPow2AtLeast(s)
           /\ r.ok => r.h.n_buckets >= s

\* The key whose hash, masked to 15 bits, is i: the hash of a key below 2^15
\* is key ^ (key << 6), which is undone by i ^ (i << 6) ^ (i << 12).
Unhash(i) ==
    LET half == Wrap \div 2
    IN BitXor(BitXor(i, (i * 64) % half), (i * 4096) % half)

\* The table after uhash_put of the keys Unhash(0) .. Unhash(u - 1), u the
\* upper bound of the largest capacity, with nothing deleted: capacity
\* 2^(UHASH_UINT_BITS - 1), every key in its home bucket (no two of these
\* keys share one), size = used = u.
MaxTable ==
    LET n == Wrap \div 2
        u == __uhash_upper_bound(n)
    IN [n_buckets |-> n, n_occupied |-> u, count |-> u,
        flags |-> [i \in 0..(n - 1) |-> IF i < u THEN 0 ELSE 2],
        keys |-> [i \in 0..(n - 1) |-> IF i < u THEN Unhash(i) ELSE Uninit],
        vals |-> IF uhash_map
                 THEN [i \in 0..(n - 1) |-> IF i < u THEN 0 ELSE Uninit]
                 ELSE << >>]

Holds(t, k) == \E i \in 0..(t.n_buckets - 1) : uhash_exists(t, i) /\ t.keys[i] = k

\* C16 as stated: with every allocation succeeding, a uhash_put on a table
\* whose used count has reached the upper bound of its capacity and whose
\* capacity is at most twice its size never returns UHASH_ERROR, leaves the
\* capacity at the next larger power of two (4 from 0, otherwise double) and
\* returns UHASH_PRESENT if the key was stored and UHASH_INSERTED if not;
\* this for the tables the model reaches and for the fullest table of the
\* largest capacity.
C16_AsStated ==
    \A t \in {h, MaxTable} :
        \A k \in Keys \cup {Unhash(t.count)} :
            (t.n_occupied >= __uhash_upper_bound(t.n_buckets)
             /\ t.n_buckets <= 2 * t.count) =>
                LET p == uhash_put(t, k, uhash_map, 0)
                IN /\ p.ret # UHASH_ERROR
                   /\ p.h.n_buckets = IF t.n_buckets = 0 THEN 4 ELSE 2 * t.n_buckets
                   /\ p.ret = IF Holds(t, k) THEN UHASH_PRESENT ELSE UHASH_INSERTED

\* C17: in a map, uhmap_set(k, v, &prev) returns UHASH_ERROR only when an
\* allocation fails; otherwise it returns UHASH_INSERTED if k was absent and
\* UHASH_PRESENT if it was present, on UHASH_PRESENT prev holds the value
\* stored for k before the call, and in both cases the value stored for k
\* afterwards is v; on UHASH_ERROR prev is not written and every key keeps
\* the value it had.
C17_MapSet ==
    uhash_map =>
        \A k \in Keys, v \in Vals :
          \A fail \in 0..uhmap_set(h, k, v, 0).allocs :
            LET r == uhmap_set(h, k, v, fail)
            IN /\ fail = 0 => r.ret # UHASH_ERROR
               /\ r.ret # UHASH_ERROR =>
                     /\ r.ret = IF k \in StoredKeys(h) THEN UHASH_PRESENT
                                ELSE UHASH_INSERTED
                     /\ r.ret = UHASH_PRESENT => r.existing = uhmap_get(h, k, Unwritten)
                     /\ uhmap_get(r.h, k, Unwritten) = v
                     /\ r.h.vals[uhash_get(r.h, k)] = v
               /\ r.ret = UHASH_ERROR =>
                     /\ r.existing = Unwritten
                     /\ Entries(r.h) = Entries(h)

\* A map holding a key whose value uhmap_set changes, and an absent key whose
\* uhmap_set fails on its first allocation.
C17_Witness ==
    /\ uhash_map
    /\ \E k \in StoredKeys(h), v \in Vals :
           /\ uhmap_get(h, k, Unwritten) # v
           /\ uhmap_set(h, k, v, 0).ret = UHASH_PRESENT
           /\ uhmap_set(h, k, v, 0).existing = uhmap_get(h, k, Unwritten)
    /\ \E k \in Keys \ StoredKeys(h), v \in Vals :
           uhmap_set(h, k, v, 1).ret = UHASH_ERROR

\* C18: in a map, uhmap_add(k, v, &existing) that does not fail returns
\* UHASH_INSERTED when k was absent, and k then has the value v; when k was
\* present it returns UHASH_PRESENT, existing holds the stored value, and
\* the value stored for k and every other key is what it was.
C18_MapAdd ==
    uhash_map =>
        \A k \in Keys, v \in Vals :
          \A fail \in 0..uhmap_add(h, k, v, 0).allocs :
            LET r == uhmap_add(h, k, v, fail)
            IN /\ fail = 0 => r.ret # UHASH_ERROR
               /\ (k \notin StoredKeys(h) /\ r.ret # UHASH_ERROR) =>
                     /\ r.ret = UHASH_INSERTED
                     /\ uhmap_get(r.h, k, Unwritten) = v
                     /\ r.existing = Unwritten
               /\ k \in StoredKeys(h) /\ r.ret # UHASH_ERROR =>
                     /\ r.ret = UHASH_PRESENT
                     /\ r.existing = uhmap_get(h, k, Unwritten)
                     /\ uhmap_get(r.h, k, Unwritten) = uhmap_get(h, k, Unwritten)
                     /\ Entries(r.h) = Entries(h)

\* A map holding a key with a value other than the one offered: uhmap_add
\* reports it present, after growing the table, and adds an absent key.
C18_Witness ==
    /\ uhash_map
    /\ \E k \in StoredKeys(h), v \in Vals :
           /\ uhmap_get(h, k, Unwritten) # v
           /\ uhmap_add(h, k, v, 0).ret = UHASH_PRESENT
           /\ uhmap_add(h, k, v, 0).allocs > 0
    /\ \E k \in Keys \ StoredKeys(h), v \in Vals :
           uhmap_add(h, k, v, 0).ret = UHASH_INSERTED

\* C19: in a map, uhmap_replace(k, v, &prev) on an absent key returns false,
\* writes nothing to prev and leaves the table as it was, capacity included;
\* on a stored key it returns true, prev holds the value stored before, the
\* value stored for k afterwards is v, and size, used, capacity, the state
\* of every bucket and every key are unchanged.
C19_MapReplace ==
    uhash_map =>
        \A k \in Keys, v \in Vals :
            LET r == uhmap_replace(h, k, v)
            IN IF k \in StoredKeys(h)
               THEN /\ r.ret = TRUE
                    /\ r.replaced = uhmap_get(h, k, Unwritten)
                    /\ uhmap_get(r.h, k, Unwritten) = v
                    /\ r.h.count = h.count
                    /\ r.h.n_occupied = h.n_occupied
                    /\ r.h.n_buckets = h.n_buckets
                    /\ r.h.flags = h.flags
                    /\ r.h.keys = h.keys
                    /\ \A i \in Occupied(h) : h.keys[i] # k => r.h.vals[i] = h.vals[i]
               ELSE /\ r.ret = FALSE
                    /\ r.replaced = Unwritten
                    /\ r.h = h

\* A map whose next put would resize it, holding a key whose value
\* uhmap_replace changes and lacking a key uhmap_replace refuses.
C19_Witness ==
    /\ uhash_map
    /\ h.n_occupied >= __uhash_upper_bound(h.n_buckets)
    /\ \E k \in StoredKeys(h), v \in Vals :
           /\ uhmap_get(h, k, Unwritten) # v
           /\ uhmap_replace(h, k, v).ret
           /\ uhmap_replace(h, k, v).h # h
    /\ \E k \in Keys \ StoredKeys(h), v \in Vals : ~uhmap_replace(h, k, v).ret

\* C20: uhmap_remove / uhmap_pop in a map and uhset_remove / uhset_pop in a
\* set return true exactly when the key was stored; on true the key (and in
\* a map the value) copied out is the one stored before the call, the key is
\* absent afterwards, the size is one less and every other key keeps its
\* value; on false the table is unchanged and nothing is copied out.
C20_Remove ==
    \A k \in Keys :
        /\ uhash_map =>
              LET r == uhmap_remove(h, k)
              IN /\ r.ret = (k \in StoredKeys(h))
                 /\ r.ret =>
                       /\ r.r_key = k
                       /\ r.r_key = h.keys[uhash_get(h, k)]
                       /\ r.r_val = uhmap_get(h, k, Unwritten)
                       /\ uhash_get(r.h, k) = UHASH_INDEX_MISSING
                       /\ r.h.count = h.count - 1
                       /\ Entries(r.h) = Entries(h) \ {<<k, r.r_val>>}
                 /\ ~r.ret =>
                       r.h = h /\ r.r_key = Unwritten /\ r.r_val = Unwritten
        /\ ~uhash_map =>
              LET s == uhset_remove(h, k)
              IN /\ s.ret = (k \in StoredKeys(h))
                 /\ s.ret =>
                       /\ s.removed = k
                       /\ uhash_get(s.h, k) = UHASH_INDEX_MISSING
                       /\ s.h.count = h.count - 1
                       /\ StoredKeys(s.h) = StoredKeys(h) \ {k}
                 /\ ~s.ret => s.h = h /\ s.removed = Unwritten

\* A map with a tombstone and two keys holding different values: removing
\* one copies its pair out, and removing an absent key is refused.
C20_Witness ==
    /\ uhash_map
    /\ Tombstones(h) # {}
    /\ \E k1, k2 \in StoredKeys(h) :
           /\ uhmap_get(h, k1, Unwritten) # uhmap_get(h, k2, Unwritten)
           /\ uhmap_remove(h, k1).ret
           /\ uhmap_remove(h, k1).r_val = uhmap_get(h, k1, Unwritten)
           /\ uhmap_remove(h, k1).h.count = h.count - 1
    /\ \E k \in Keys \ StoredKeys(h) : ~uhmap_remove(h, k).ret

\* C21: in a set, with every allocation succeeding, uhset_insert_all(h,
\* items, n) on an array of up to two keys returns UHASH_INSERTED if and only if some element of the array
\* was not stored before the call and UHASH_PRESENT otherwise (the empty
\* array and arrays with duplicates included), and afterwards every element
\* of the array is stored.
C21_InsertAllStatus ==
    ~uhash_map =>
        \A items \in ShortArrays :
            LET r == uhset_insert_all(h, items, Len(items), 0)
            IN /\ r.ret = IF \E j \in 1..Len(items) : items[j] \notin StoredKeys(h)
                          THEN UHASH_INSERTED ELSE UHASH_PRESENT
               /\ \A j \in 1..Len(items) : items[j] \in StoredKeys(r.h)
               /\ \A j \in 1..Len(items) : uhash_get(r.h, items[j]) # UHASH_INDEX_MISSING

\* A set with a stored key and a tombstone: the array of a new key twice
\* and the array of the stored key and a new one report UHASH_INSERTED, the
\* array of the stored key twice and the empty array UHASH_PRESENT.
C21_Witness ==
    /\ ~uhash_map
    /\ Tombstones(h) # {}
    /\ \E a \in StoredKeys(h), b \in Keys \ StoredKeys(h) :
           /\ uhset_insert_all(h, <<b, b>>, 2, 0).ret = UHASH_INSERTED
           /\ uhset_insert_all(h, <<a, b>>, 2, 0).ret = UHASH_INSERTED
           /\ uhset_insert_all(h, <<a, a>>, 2, 0).ret = UHASH_PRESENT
           /\ uhset_insert_all(h, << >>, 0, 0).ret = UHASH_PRESENT

\* The array lengths a caller may pass to uhset_insert_all.
AnyLength == 0..(MaxBuckets + 1)

\* C22 as stated: the resize uhset_insert_all(h, items, n) starts with
\* leaves a capacity of at least n / 0.77, so that n keys fit under the
\* upper bound of that capacity.
C22_AsStated ==
    ~uhash_map =>
        \A n \in AnyLength :
            LET pre == insert_all_presize(h, n, 0)
            IN /\ 77 * pre.h.n_buckets >= 100 * n
               /\ n <= __uhash_upper_bound(pre.h.n_buckets)

\* C22: the resize uhset_insert_all(h, items, n) starts with is
\* uhash_resize(h, n): with every allocation succeeding it keeps the stored
\* keys and leaves the capacity at the smallest power of two that is at
\* least n and at least 4, or as it was when the size has reached the upper
\* bound of that power; the capacity is then at least n.
C22_InsertAllPresize ==
    ~uhash_map =>
        \A n \in AnyLength :
            LET pre == insert_all_presize(h, n, 0)
                P == SmallestPow2AtLeast(n)
            IN /\ pre.ok
               /\ pre.h.n_buckets =
                     IF h.count >= __uhash_upper_bound(P) THEN h.n_buckets ELSE P
               /\ pre.h.n_buckets >= n
               /\ StoredKeys(pre.h) = StoredKeys(h)

\* A set of one key and an array of three new keys: the first resize leaves
\* capacity 4, whose upper bound is 3, and the inserts grow the table to 8.
C22_Witness ==
    /\ ~uhash_map
    /\ h.count = 1
    /\ \E items \in [1..3 -> Keys \ StoredKeys(h)] :
           /\ insert_all_presize(h, 3, 0).h.n_buckets = 4
           /\ insert_all_presize(h, 3, 0).allocs > 0
           /\ uhset_insert_all(h, items, 3, 0).h.n_buckets = 8
           /\ uhset_insert_all(h, items, 3, 0).ret = UHASH_INSERTED

\* uhash_alloc followed by the puts of the keys of ks in order, the deletes
\* of the keys of ds in order and, if s is not 0, uhash_resize(s), no
\* allocation failing.
RECURSIVE put_each(_, _, _)
put_each(t, ks, i) ==
    IF i > Len(ks) THEN t ELSE put_each(uhash_put(t, ks[i], FALSE, 0).h, ks, i + 1)

RECURSIVE remove_each(_, _, _)
remove_each(t, ds, i) ==
    IF i > Len(ds) THEN t ELSE remove_each(uhset_remove(t, ds[i]).h, ds, i + 1)

BuiltSet(ks, ds, s) ==
    LET t == remove_each(put_each(uhash_alloc, ks, 1), ds, 1)
    IN Observable(IF s = 0 THEN t ELSE uhash_resize(t, s, FALSE, 0).h)

\* Sets a caller builds from uhash_alloc: capacities 0, 4 and 8, the same
\* keys put in different orders, with and without tombstones, before and
\* after a rehash.
BuiltSets ==
    {uhash_alloc,
     BuiltSet(<<3>>, << >>, 0),
     BuiltSet(<<3>>, << >>, 5),
     BuiltSet(<<3, 7>>, << >>, 0),
     BuiltSet(<<7, 3>>, << >>, 0),
     BuiltSet(<<7, 3>>, <<7>>, 0),
     BuiltSet(<<3, 7>>, <<3, 7>>, 0),
     BuiltSet(<<3, 7, 11>>, <<7>>, 0),
     BuiltSet(<<3, 7, 11>>, <<7>>, 4),
     BuiltSet(<<3, 7, 11, 15>>, << >>, 0),
     BuiltSet(<<15, 11, 7, 3>>, << >>, 0),
     BuiltSet(<<15, 11, 7, 3>>, <<11>>, 0),
     BuiltSet(<<3, 7, 11, 15>>, <<3, 15>>, 0)}

\* C23: for every reachable set a and every built set b, whatever their
\* capacities and tombstones, uhset_is_superset(a, b) is true if and only if
\* every key stored in b is stored in a, and likewise with a and b
\* exchanged: true when the second set is empty or has capacity 0, false
\* when the first has capacity 0 and the second is not empty.
C23_IsSuperset ==
    ~uhash_map =>
        \A b \in BuiltSets :
            /\ uhset_is_superset(h, b) = (StoredKeys(b) \subseteq StoredKeys(h))
            /\ uhset_is_superset(b, h) = (StoredKeys(h) \subseteq StoredKeys(b))

\* A set of capacity 8 with a tombstone and a built set of capacity 4 with
\* a tombstone that holds some but not all of its keys, whose first bucket
\* is not OCCUPIED.
C23_Witness ==
    /\ ~uhash_map
    /\ h.n_buckets = 8
    /\ Tombstones(h) # {}
    /\ \E b \in BuiltSets :
           /\ b.n_buckets = 4
           /\ Tombstones(b) # {}
           /\ ~uhash_exists(b, 0)
           /\ b.count > 0
           /\ uhset_is_superset(h, b)
           /\ ~uhset_is_superset(b, h)

\* C24: for every reachable set a and every built set b, whatever the calls
\* that built them, their capacities and their tombstones, uhset_equals(a,
\* b) is true if and only if a and b store the same keys, uhset_equals(a, b)
\* = uhset_equals(b, a), and uhset_equals(a, a) is true.
C24_Equals ==
    ~uhash_map =>
        /\ uhset_equals(h, h)
        /\ \A b \in BuiltSets :
               /\ uhset_equals(b, b)
               /\ uhset_equals(h, b) = (StoredKeys(h) = StoredKeys(b))
               /\ uhset_equals(b, h) = uhset_equals(h, b)

\* A set of capacity 8 with a tombstone and built sets of capacity 4: one
\* with the same keys, one with as many keys but not the same, one with
\* some of its keys only.
C24_Witness ==
    /\ ~uhash_map
    /\ h.n_buckets = 8
    /\ Tombstones(h) # {}
    /\ \E b \in BuiltSets : b.n_buckets = 4 /\ b.count > 0 /\ uhset_equals(h, b)
    /\ \E b \in BuiltSets :
           b.count = h.count /\ ~uhset_equals(h, b) /\ ~uhset_equals(b, h)
    /\ \E b \in BuiltSets :
           b.count > 0 /\ uhset_is_superset(h, b) /\ ~uhset_equals(h, b)

\* The XOR of the hash function over a set of keys.
RECURSIVE XorOfHashes(_)
XorOfHashes(S) ==
    IF S = {} THEN 0
    ELSE LET k == CHOOSE q \in S : TRUE
         IN BitXor(uint(__hash_func(k)), XorOfHashes(S \ {k}))

\* C25: uhset_hash of every reachable set and of every built set is the XOR
\* of the hash function over its stored keys, 0 when it stores none; hence
\* a reachable set and a built set that store the same keys have the same
\* uhset_hash, whatever the order of the puts, the deletes and resizes in
\* between and the capacities.
C25_HashOfKeySet ==
    ~uhash_map =>
        /\ uhset_hash(h) = XorOfHashes(StoredKeys(h))
        /\ h.count = 0 => uhset_hash(h) = 0
        /\ \A b \in BuiltSets :
               /\ uhset_hash(b) = XorOfHashes(StoredKeys(b))
               /\ StoredKeys(b) = StoredKeys(h) => uhset_hash(b) = uhset_hash(h)

\* A set of capacity 8 with a tombstone and two keys or more, and a built
\* set of capacity 4 with the same keys in other buckets: both have the
\* same hash, which is not 0.
C25_Witness ==
    /\ ~uhash_map
    /\ h.n_buckets = 8
    /\ Tombstones(h) # {}
    /\ h.count >= 2
    /\ uhset_hash(h) # 0
    /\ \E b \in BuiltSets :
           /\ b.n_buckets = 4
           /\ StoredKeys(b) = StoredKeys(h)
           /\ uhset_hash(b) = uhset_hash(h)

\* C26: in a set, uhset_get_any(h, d) returns the key of the OCCUPIED bucket
\* of lowest index, which is a stored key, whenever the size is not 0, and
\* returns d whenever the set stores no key: at capacity 0, after
\* uhash_clear, and after the delete of its last key.
C26_GetAny ==
    ~uhash_map =>
        \A d \in Keys \cup {Unwritten} :
            /\ h.count > 0 =>
                  /\ Occupied(h) # {}
                  /\ \E i \in Occupied(h) :
                        /\ \A j \in Occupied(h) : i <= j
                        /\ uhset_get_any(h, d) = h.keys[i]
                  /\ uhset_get_any(h, d) \in StoredKeys(h)
            /\ h.count = 0 => uhset_get_any(h, d) = d
            /\ uhset_get_any(uhash_alloc, d) = d
            /\ uhset_get_any(uhash_clear(h), d) = d
            /\ \A k \in StoredKeys(h) :
                  h.count = 1 => uhset_get_any(uhset_remove(h, k).h, d) = d

\* A set of two keys or more with a tombstone and an EMPTY bucket below
\* its first OCCUPIED bucket: uhset_get_any returns a stored key, and the
\* default once the set is cleared.
C26_Witness ==
    /\ ~uhash_map
    /\ h.count >= 2
    /\ \E i, j \in Buckets(h) :
           /\ i < get_any_from(h, 0) /\ j < get_any_from(h, 0)
           /\ __uhf_isempty(h.flags, i)
           /\ __uhf_isdel(h.flags, j) /\ ~__uhf_isempty(h.flags, j)
    /\ \E d \in Keys \ StoredKeys(h) :
           /\ uhset_get_any(h, d) \in StoredKeys(h)
           /\ uhset_get_any(uhash_clear(h), d) = d

\* The lookups a caller may make: the function and its arguments.
LookupCalls(map) ==
    {<<"uhash_get", k>> : k \in Keys}
    \cup {<<"uhash_contains", k>> : k \in Keys}
    \cup (IF map THEN {<<"uhmap_get", k, d>> : k \in Keys, d \in Vals}
          ELSE {<<"uhset_is_superset", b>> : b \in BuiltSets}
               \cup {<<"uhset_hash">>}
               \cup {<<"uhset_get_any", d>> : d \in Keys})

Lookup(t, c) ==
    CASE c[1] = "uhash_get" -> uhash_get_call(t, c[2])
      [] c[1] = "uhash_contains" -> uhash_contains_call(t, c[2])
      [] c[1] = "uhmap_get" -> uhmap_get_call(t, c[2], c[3])
      [] c[1] = "uhset_is_superset" -> uhset_is_superset_call(t, c[2])
      [] c[1] = "uhset_hash" -> uhset_hash_call(t)
      [] c[1] = "uhset_get_any" -> uhset_get_any_call(t, c[2])

RECURSIVE ProbeFrom(_, _, _)
ProbeFrom(t, i, s) ==
    IF s = t.n_buckets THEN << >>
    ELSE <<i>> \o ProbeFrom(t, BitAnd(uint(i + s + 1), t.n_buckets - 1), s + 1)

ProbePath(t, key) ==
    ProbeFrom(t, BitAnd(uint(__hash_func(key)), t.n_buckets - 1), 0)

\* The positions of the probe sequence of the key of the OCCUPIED bucket i
\* at which it visits i without having met an EMPTY bucket, if any.
StepsTo(t, i) ==
    LET path == ProbePath(t, t.keys[i])
    IN {s \in 1..Len(path) :
           /\ path[s] = i
           /\ \A r \in 1..(s - 1) : ~__uhf_isempty(t.flags, path[r])}

\* C28: in every reachable state, the probe sequence of every stored key,
\* started at hash & (capacity - 1), visits the bucket that holds the key
\* before it meets an EMPTY bucket.
C28_ProbeReachesKey == \A i \in Occupied(h) : StepsTo(h, i) # {}

\* A table in which the probe sequence of a stored key passes a tombstone
\* and an OCCUPIED bucket of another key before it reaches its own.
C28_Witness ==
    \E i \in Occupied(h) :
        \E s \in StepsTo(h, i) :
            /\ \E r \in 1..(s - 1) : ProbePath(h, h.keys[i])[r] \in Tombstones(h)
            /\ \E r \in 1..(s - 1) : ProbePath(h, h.keys[i])[r] \in Occupied(h)

\* The buckets that are not EMPTY: OCCUPIED or DELETED.
Used(t) == {i \in Buckets(t) : ~__uhf_isempty(t.flags, i)}

\* C29: in every reachable state the size (count) is the number of OCCUPIED
\* buckets and used (n_occupied) is the number of buckets that are not
\* EMPTY; hence size <= used <= capacity, and the size is 0 if and only if
\* no bucket is OCCUPIED.
C29_Counters ==
    /\ h.count = Cardinality(Occupied(h))
    /\ h.n_occupied = Cardinality(Used(h))
    /\ Used(h) = Occupied(h) \cup Tombstones(h)
    /\ h.count <= h.n_occupied
    /\ h.n_occupied <= h.n_buckets
    /\ (h.count = 0) = (Occupied(h) = {})

\* A table of capacity 8 with two tombstones and two keys: size 2, used 4.
C29_Witness ==
    /\ h.n_buckets = 8
    /\ Cardinality(Tombstones(h)) = 2
    /\ h.count = 2
    /\ h.n_occupied = 4

\* C30 as stated: used <= upper_bound(capacity) in every state the table is
\* left in, and after a uhash_put that does not report UHASH_ERROR, on the
\* tables the model reaches and on the fullest table of the largest
\* capacity: the put resizes before it writes whenever used has reached the
\* bound.
C30_AsStated ==
    /\ h.n_occupied <= __uhash_upper_bound(h.n_buckets)
    /\ \A t \in {h, MaxTable} :
           \A k \in Keys \cup {Unhash(t.count)} :
               LET p == uhash_put(t, k, uhash_map, 0)
               IN p.ret # UHASH_ERROR =>
                     p.h.n_occupied <= __uhash_upper_bound(p.h.n_buckets)

\* C31: in every reachable state the capacity is 0 or a power of two that
\* is at least 4. A table of capacity 0 holds nothing, as the table
\* uhash_alloc returned (a resize that failed may have left it larger
\* storage): every call that succeeds on it leaves a capacity that is not 0
\* (the first put exactly 4, a resize or an insert_all a power of two that
\* is at least 4), and a call that fails, and uhash_clear, leave it 0. Once
\* the capacity is not 0 no call makes it 0 again.
C31_Capacity ==
    /\ [](h.n_buckets = 0 \/ (h.n_buckets \in Pow2 /\ h.n_buckets >= 4))
    /\ [](
           h.n_buckets = 0 =>
               /\ h.count = 0 /\ h.n_occupied = 0 /\ h.flags = << >>
               /\ DOMAIN model = {}
               /\ \A k \in Keys :
                      /\ uhash_put(h, k, uhash_map, 0).ret = UHASH_INSERTED
                      /\ uhash_put(h, k, uhash_map, 0).h.n_buckets = 4
                      /\ \A fail \in 1..uhash_put(h, k, uhash_map, 0).allocs :
                             uhash_put(h, k, uhash_map, fail).h.n_buckets = 0
               /\ \A s \in WideRequests :
                      /\ uhash_resize(h, s, uhash_map, 0).ok
                      /\ uhash_resize(h, s, uhash_map, 0).h.n_buckets \in Pow2
                      /\ uhash_resize(h, s, uhash_map, 0).h.n_buckets >= 4
                      /\ ~uhash_resize(h, s, uhash_map, 1).ok
                      /\ uhash_resize(h, s, uhash_map, 1).h.n_buckets = 0
               /\ \A items \in ShortArrays :
                      /\ uhset_insert_all(h, items, Len(items), 0).ret # UHASH_ERROR
                      /\ uhset_insert_all(h, items, Len(items), 0).h.n_buckets >= 4
               /\ uhash_clear(h).n_buckets = 0)
    /\ [][h.n_buckets # 0 => h'.n_buckets # 0]_vars

\* A table of capacity 8 whose keys were all deleted: size 0, tombstones
\* only, and the capacity is still 8.
C31_Witness ==
    /\ h.n_buckets = 8
    /\ h.count = 0
    /\ Tombstones(h) # {}

\* The positions of the probe sequence of key at which it visits a DELETED
\* bucket of t before it has met an EMPTY bucket.
DeletedOnPath(t, key) ==
    LET path == ProbePath(t, key)
    IN {s \in 1..Len(path) :
           /\ __uhf_isdel(t.flags, path[s]) /\ ~__uhf_isempty(t.flags, path[s])
           /\ \A r \in 1..(s - 1) : ~__uhf_isempty(t.flags, path[r])}

\* The probe sequence of key meets an EMPTY bucket of t.
ReachesEmpty(t, key) ==
    \E s \in 1..t.n_buckets : __uhf_isempty(t.flags, ProbePath(t, key)[s])

\* C32 as stated: a put of an absent key whose probe path crosses DELETED
\* buckets before it reaches an EMPTY bucket writes the key to the first
\* of those DELETED buckets.
C32_AsStated ==
    \A k \in Keys :
        LET t == put_resize(h, uhash_map, 0).h
        IN (/\ uhash_get(t, k) = UHASH_INDEX_MISSING
            /\ ReachesEmpty(t, k)
            /\ DeletedOnPath(t, k) # {})
           => /\ uhash_put(h, k, uhash_map, 0).ret = UHASH_INSERTED
              /\ \E s \in DeletedOnPath(t, k) :
                     /\ \A r \in DeletedOnPath(t, k) : s <= r
                     /\ uhash_put(h, k, uhash_map, 0).x = ProbePath(t, k)[s]

\* C32: a put of an absent key whose probe path crosses DELETED buckets
\* before it reaches an EMPTY bucket writes the key to the last of those
\* DELETED buckets, the one nearest to the EMPTY bucket; it does not write
\* to the EMPTY bucket and the number of used buckets stays as it was.
C32_PutReusesLastTombstone ==
    \A k \in Keys :
        LET t == put_resize(h, uhash_map, 0).h
        IN (/\ uhash_get(t, k) = UHASH_INDEX_MISSING
            /\ ReachesEmpty(t, k)
            /\ DeletedOnPath(t, k) # {})
           => /\ uhash_put(h, k, uhash_map, 0).ret = UHASH_INSERTED
              /\ \E s \in DeletedOnPath(t, k) :
                     /\ \A r \in DeletedOnPath(t, k) : s >= r
                     /\ uhash_put(h, k, uhash_map, 0).x = ProbePath(t, k)[s]
              /\ uhash_put(h, k, uhash_map, 0).h.keys[uhash_put(h, k, uhash_map, 0).x] = k
              /\ uhash_put(h, k, uhash_map, 0).h.n_occupied = t.n_occupied

\* A table in which the probe path of an absent key crosses two DELETED
\* buckets before it reaches an EMPTY bucket, and the put of that key does
\* not resize.
C32_Witness ==
    \E k \in Keys :
        /\ h.n_occupied < __uhash_upper_bound(h.n_buckets)
        /\ uhash_get(h, k) = UHASH_INDEX_MISSING
        /\ ReachesEmpty(h, k)
        /\ Cardinality({ProbePath(h, k)[s] : s \in DeletedOnPath(h, k)}) >= 2

\* The put of lines 405-412 finds the table dominated by tombstones.
TombstoneDominated(t) ==
    /\ t.n_occupied >= __uhash_upper_bound(t.n_buckets)
    /\ t.n_buckets > t.count * 2

\* Sets of capacity 8 a caller builds from uhash_alloc by six puts and
\* three or five deletes: six buckets used, at most three keys left.
DominatedSets ==
    {BuiltSet(<<3, 7, 11, 15, 19, 23>>, <<3, 7, 11>>, 0),
     BuiltSet(<<3, 7, 11, 15, 19, 23>>, <<23, 15, 7>>, 0),
     BuiltSet(<<23, 19, 15, 11, 7, 3>>, <<3, 7, 11, 15, 19>>, 0)}

\* C33: a put that finds used >= upper_bound(capacity) and capacity >
\* 2 * size rehashes instead of growing: when no allocation fails, after
\* the put the capacity is a power of two, not larger than before (it is
\* the same) and at least size / 0.77, no tombstone is left (used = size)
\* and the stored keys are the previous ones and the put key. This holds
\* in every reachable state and on built sets of capacity 8.
C33_PutPurgesTombstones ==
    \A t \in {h} \cup DominatedSets :
        TombstoneDominated(t) =>
            \A k \in Keys \cup StoredKeys(t) :
                LET r == uhash_put(t, k, t = h /\ uhash_map, 0)
                IN /\ r.ret \in {UHASH_INSERTED, UHASH_PRESENT}
                   /\ r.allocs > 0
                   /\ r.h.n_buckets \in Pow2
                   /\ r.h.n_buckets <= t.n_buckets
                   /\ r.h.n_buckets = t.n_buckets
                   /\ r.h.n_buckets * 77 >= r.h.count * 100
                   /\ r.h.n_occupied = r.h.count
                   /\ Tombstones(r.h) = {}
                   /\ StoredKeys(r.h) = StoredKeys(t) \cup {k}

\* A table of capacity 4 dominated by tombstones that still holds a key.
C33_Witness ==
    /\ TombstoneDominated(h)
    /\ h.n_buckets = 4
    /\ h.count = 1
    /\ Cardinality(Tombstones(h)) = 2

\* C34 as stated: a put that returns UHASH_PRESENT leaves capacity, size,
\* used, every bucket state and every stored key and value as they were.
C34_AsStated ==
    \A k \in Keys :
        LET r == uhash_put(h, k, uhash_map, 0)
        IN r.ret = UHASH_PRESENT => View(r.h) = View(h)

\* C34: a put that returns UHASH_PRESENT keeps the size and the stored
\* keys with their values, and returns the index of the bucket that holds
\* the key; capacity, used, bucket states and indices are as before when
\* used was below the upper bound on entry, and otherwise they are those
\* of the table after the resize the put started with, which has no
\* tombstone.
C34_PresentPutKeepsEntries ==
    \A k \in Keys :
        LET r == uhash_put(h, k, uhash_map, 0)
        IN r.ret = UHASH_PRESENT =>
               /\ k \in StoredKeys(h)
               /\ r.h.count = h.count
               /\ Entries(r.h) = Entries(h)
               /\ r.x < r.h.n_buckets
               /\ uhash_exists(r.h, r.x)
               /\ r.h.keys[r.x] = k
               /\ IF h.n_occupied < __uhash_upper_bound(h.n_buckets)
                  THEN View(r.h) = View(h) /\ r.allocs = 0
                  ELSE /\ r.h = put_resize(h, uhash_map, 0).h
                       /\ r.allocs > 0
                       /\ r.h.n_buckets >= h.n_buckets
                       /\ r.h.n_occupied = h.count
                       /\ Tombstones(r.h) = {}

\* A table whose used count has reached the upper bound and a stored key
\* whose put returns UHASH_PRESENT after it moved the key to another bucket.
C34_Witness ==
    \E k \in StoredKeys(h) :
        /\ h.n_occupied >= __uhash_upper_bound(h.n_buckets)
        /\ uhash_put(h, k, uhash_map, 0).ret = UHASH_PRESENT
        /\ uhash_put(h, k, uhash_map, 0).x # uhash_get(h, k)

\* C38: no uhash_put, uhash_delete or uhash_clear, failing puts and the
\* puts of the map layer included, leaves a capacity below the one it
\* found, and every step that lowers the capacity is the outcome of a
\* uhash_resize or of a uhset_insert_all.
C38_CapacityMonotone ==
    /\ [](/\ \A k \in Keys :
                 \A fail \in 0..uhash_put(h, k, uhash_map, 0).allocs :
                     uhash_put(h, k, uhash_map, fail).h.n_buckets >= h.n_buckets
          /\ \A x \in Buckets(h) : uhash_delete(h, x).n_buckets = h.n_buckets
          /\ uhash_clear(h).n_buckets = h.n_buckets)
    /\ [][h'.n_buckets < h.n_buckets =>
              \/ \E s \in Requests : h' = Observable(uhash_resize(h, s, uhash_map, 0).h)
              \/ \E items \in ItemArrays :
                     h' = Observable(uhset_insert_all(h, items, Len(items), 0).h)]_vars

\* A table of capacity 8 holding one key, which a put, a delete and a
\* clear leave at capacity 8 and which uhash_resize(h, 4) reduces to 4.
C38_Witness ==
    /\ h.n_buckets = 8
    /\ h.count = 1
    /\ Tombstones(h) # {}
    /\ uhash_resize(h, 4, uhash_map, 0).h.n_buckets = 4
    /\ uhset_insert_all(h, << >>, 0, 0).h.n_buckets = 4

(* ------------------- put, delete and clear, no resize ------------------- *)
MaxGrowthKey == 3
MaxGrowth == 16

\* Keys whose home buckets differ: the hash of a key below 64 ends in the
\* key itself.
GrowthKeys == 0..MaxGrowthKey

\* uhash_put(T, h, k, &ret) on a set, the largest size so far recorded
GrowthPut(k) ==
    /\ \E p0 \in {uhash_put(h, k, FALSE, 0)} :
       \E fail \in Fails(p0.allocs) :
       \E p \in {IF fail = 0 THEN p0 ELSE uhash_put(h, k, FALSE, fail)} :
          /\ p0.h.n_buckets <= MaxGrowth
          /\ h' = Observable(p.h)
          /\ model' = IF p.ret = UHASH_ERROR THEN model ELSE With(model, k, 0)
          /\ peak' = IF p.h.count > peak THEN p.h.count ELSE peak
    /\ UNCHANGED <<uhash_map, call>>

\* uhash_delete(T, h, x) on a set, x a bucket of the table
GrowthDelete(x) ==
    /\ x < h.n_buckets
    /\ h' = Observable(uhash_delete(h, x))
    /\ model' = IF uhash_exists(h, x) THEN Without(model, h.keys[x]) ELSE model
    /\ UNCHANGED <<uhash_map, peak, call>>

\* uhash_clear(T, h)
GrowthClear ==
    /\ h' = Observable(uhash_clear(h))
    /\ model' = [q \in {} |-> 0]
    /\ UNCHANGED <<uhash_map, peak, call>>

GrowthInit ==
    /\ h = uhash_alloc
    /\ uhash_map = FALSE
    /\ model = [q \in {} |-> 0]
    /\ peak = 0
    /\ call = Idle

GrowthNext ==
    \/ \E k \in GrowthKeys : GrowthPut(k)
    \/ \E x \in 0..(MaxGrowth - 1) : GrowthDelete(x)
    \/ GrowthClear

\* Sequences of uhash_put, uhash_delete and uhash_clear on a set that starts
\* as uhash_alloc returned it.
GrowthSpec == GrowthInit /\ [][GrowthNext]_vars

\* C39: along every sequence of uhash_put, uhash_delete and uhash_clear
\* calls the capacity is at most max(4, 4 * S), S the largest size the
\* table has had so far.
C39_BoundedGrowth == h.n_buckets <= (IF peak >= 1 THEN 4 * peak ELSE 4)

\* A table that never held more than one key at a time, whose three used
\* buckets are tombstones, still of capacity 4 after a put rehashed it.
C39_Witness ==
    /\ peak = 1
    /\ h.n_buckets = 4
    /\ h.count = 0
    /\ Cardinality(Tombstones(h)) = 3
    /\ \A k \in GrowthKeys :
           /\ uhash_put(h, k, FALSE, 0).h.n_buckets = 4
           /\ uhash_put(h, k, FALSE, 0).h.n_occupied = 1

(* --------------- calls run loop iteration by loop iteration ------------- *)
(* call.op is the call in flight on a set (get, put or resize), call.pc the  *)
(* loop it is in: "probe" the probe loop of uhash_get or uhash_put, "scan"  *)
(* the for loop of uhash_resize, "find" its kick-out loop with a key in     *)
(* hand, "done" the return.  call.t is the table the call works on and      *)
(* call.r the arrays of the rehash; h takes the outcome when the call       *)
(* returns.  Every allocation succeeds: a call whose allocation fails       *)
(* returns before its first loop.                                           *)

\* probe_next going to the next bucket, whatever the step count.
probe_next_linear(i, step, mask) == BitAnd(uint(i + 1), mask)

\* Lines 299, 367 and 436: i = (i + (++step)) & mask, step already advanced.
probe_next(i, step, mask) == BitAnd(uint(i + step), mask)

\* Lines 292-293, 366, 421-422: the home bucket of key.
home(key, mask) == BitAnd(uint(__hash_func(key)), mask)

\* Lines 289-296: uhash_get begins.
GetBegin(t, key) ==
    IF t.n_buckets = 0
    THEN [op |-> "get", pc |-> "done", key |-> key, i |-> 0, step |-> 0,
          last |-> 0, seen |-> << >>, lap |-> FALSE, ret |-> UHASH_INDEX_MISSING]
    ELSE [op |-> "get", pc |-> "probe", key |-> key,
          i |-> home(key, t.n_buckets - 1), step |-> 0,
          last |-> home(key, t.n_buckets - 1), seen |-> << >>, lap |-> FALSE,
          ret |-> UHASH_INDEX_MISSING]

\* Lines 450-468: uhash_put writes at x and is about to return.
PutEnd(t, key, x, lap) ==
    [op |-> "put", pc |-> "done", key |-> key, lap |-> lap,
     t |-> put_write(t, key, x, 0).h,
     ret |-> put_write(t, key, x, 0).ret,
     x |-> put_write(t, key, x, 0).x]

\* Lines 421-431: the probe of uhash_put begins on table t.
PutProbeBegin(t, key) ==
    IF __uhf_isempty(t.flags, home(key, t.n_buckets - 1))
    THEN PutEnd(t, key, home(key, t.n_buckets - 1), FALSE)
    ELSE [op |-> "put", pc |-> "probe", key |-> key, t |-> t,
          i |-> home(key, t.n_buckets - 1), step |-> 0,
          last |-> home(key, t.n_buckets - 1), site |-> t.n_buckets, lap |-> FALSE]

\* uhash_resize is over with table t: it returns true, to its caller or
\* to the uhash_put that called it (line 419).
ResizeEnd(t, op, key) ==
    IF op = "put" THEN PutProbeBegin(t, key)
    ELSE [op |-> "resize", pc |-> "done", t |-> t, ret |-> TRUE]

\* Lines 313-361: uhash_resize(t, requested) begins, called by op.
ResizeBegin(t, requested, op, key) ==
    IF t.count >= __uhash_upper_bound(round_up(__uhash_uint_next_power_2(requested)))
    THEN ResizeEnd(t, op, key)
    ELSE [op |-> op, pc |-> "scan", key |-> key, t |-> t,
          new_n |-> round_up(__uhash_uint_next_power_2(requested)),
          j |-> 0, hand |-> Uninit, i |-> 0, step |-> 0,
          r |-> [flags |-> t.flags,
                 new_flags |-> memset_flags(round_up(__uhash_uint_next_power_2(requested))),
                 keys |-> IF t.n_buckets < round_up(__uhash_uint_next_power_2(requested))
                          THEN realloc(t.keys, round_up(__uhash_uint_next_power_2(requested)))
                          ELSE t.keys,
                 vals |-> t.vals]]

\* Lines 405-419: uhash_put begins.
PutBegin(t, key) ==
    IF t.n_occupied >= __uhash_upper_bound(t.n_buckets)
    THEN ResizeBegin(t,
                     IF t.n_buckets > t.count * 2
                     THEN uint(t.n_buckets - 1) ELSE uint(t.n_buckets + 1),
                     "put", key)
    ELSE PutProbeBegin(t, key)

\* A caller calls uhash_get(T, h, k).
GetEnter(k) ==
    /\ call = Idle
    /\ call' = GetBegin(h, k)
    /\ UNCHANGED <<h, uhash_map, model, peak>>

\* Lines 298-304: one test of the loop condition of uhash_get, and what
\* follows it.
GetProbe ==
    /\ call.op = "get"
    /\ call.pc = "probe"
    /\ call' =
         IF ~__uhf_isempty(h.flags, call.i)
            /\ (__uhf_isdel(h.flags, call.i) \/ ~__equal_func(h.keys[call.i], call.key))
         THEN IF probe_next(call.i, uint(call.step + 1), h.n_buckets - 1) = call.last
              THEN [call EXCEPT !.pc = "done", !.lap = TRUE,
                                !.i = call.last, !.step = uint(call.step + 1),
                                !.seen = Append(call.seen, call.i),
                                !.ret = UHASH_INDEX_MISSING]
              ELSE [call EXCEPT !.i = probe_next(call.i, uint(call.step + 1),
                                                 h.n_buckets - 1),
                                !.step = uint(call.step + 1),
                                !.seen = Append(call.seen, call.i)]
         ELSE [call EXCEPT !.pc = "done",
                           !.seen = Append(call.seen, call.i),
                           !.ret = IF __uhf_iseither(h.flags, call.i)
                                   THEN UHASH_INDEX_MISSING ELSE call.i]
    /\ UNCHANGED <<h, uhash_map, model, peak>>

\* A caller calls uhash_put(T, h, k, &ret) on a set.
PutEnter(k) ==
    /\ call = Idle
    /\ ~uhash_map
    /\ uhash_put(h, k, FALSE, 0).h.n_buckets <= MaxBuckets
    /\ call' = PutBegin(h, k)
    /\ UNCHANGED <<h, uhash_map, model, peak>>

\* Lines 433-447: one test of the loop condition of uhash_put, and what
\* follows it.
PutProbe ==
    /\ call.op = "put"
    /\ call.pc = "probe"
    /\ call' =
         IF ~__uhf_isempty(call.t.flags, call.i)
            /\ (__uhf_isdel(call.t.flags, call.i)
                \/ ~__equal_func(call.t.keys[call.i], call.key))
         THEN IF probe_next(call.i, uint(call.step + 1), call.t.n_buckets - 1) = call.last
              THEN PutEnd(call.t, call.key,
                          put_choose(call.t,
                              [i |-> call.last,
                               site |-> IF __uhf_isdel(call.t.flags, call.i)
                                        THEN call.i ELSE call.site,
                               x |-> IF __uhf_isdel(call.t.flags, call.i)
                                     THEN call.i ELSE call.site]),
                          TRUE)
              ELSE [call EXCEPT !.i = probe_next(call.i, uint(call.step + 1),
                                                 call.t.n_buckets - 1),
                                !.step = uint(call.step + 1),
                                !.site = IF __uhf_isdel(call.t.flags, call.i)
                                         THEN call.i ELSE call.site]
         ELSE PutEnd(call.t, call.key,
                     put_choose(call.t, [i |-> call.i, site |-> call.site,
                                         x |-> call.t.n_buckets]),
                     FALSE)
    /\ UNCHANGED <<h, uhash_map, model, peak>>

\* A caller calls uhash_resize(T, h, s) on a set.
ResizeEnter(s) ==
    /\ call = Idle
    /\ ~uhash_map
    /\ uhash_resize(h, s, FALSE, 0).h.n_buckets <= MaxBuckets
    /\ call' = ResizeBegin(h, s, "resize", Uninit)
    /\ UNCHANGED <<h, uhash_map, model, peak>>

\* Lines 355-366: one iteration of the for loop, up to the kick-out loop.
Scan ==
    /\ call.op \in {"put", "resize"}
    /\ call.pc = "scan"
    /\ call.j # call.t.n_buckets
    /\ call' =
         IF __uhf_iseither(call.r.flags, call.j)
         THEN [call EXCEPT !.j = call.j + 1]
         ELSE [call EXCEPT !.pc = "find",
                           !.hand = call.r.keys[call.j],
                           !.r.flags = __uhf_set_isdel_true(call.r.flags, call.j),
                           !.i = home(call.r.keys[call.j], call.new_n - 1),
                           !.step = 0]
    /\ UNCHANGED <<h, uhash_map, model, peak>>

\* KickProbe staying on the bucket it found taken.
KickProbeStays ==
    /\ call.op \in {"put", "resize"}
    /\ call.pc = "find"
    /\ ~__uhf_isempty(call.r.new_flags, call.i)
    /\ call' = [call EXCEPT !.i = BitAnd(call.i, call.new_n - 1)]
    /\ UNCHANGED <<h, uhash_map, model, peak>>

\* Line 367: one iteration of the probe over new_flags.
KickProbe ==
    /\ call.op \in {"put", "resize"}
    /\ call.pc = "find"
    /\ ~__uhf_isempty(call.r.new_flags, call.i)
    /\ call' = [call EXCEPT !.i = probe_next(call.i, uint(call.step + 1), call.new_n - 1),
                            !.step = uint(call.step + 1)]
    /\ UNCHANGED <<h, uhash_map, model, peak>>

\* Lines 368-381: the key in hand takes the free bucket; it evicts the key
\* of the old table that sits there and goes on with it, or leaves the
\* kick-out loop.
KickPlace ==
    /\ call.op \in {"put", "resize"}
    /\ call.pc = "find"
    /\ __uhf_isempty(call.r.new_flags, call.i)
    /\ call' =
         IF call.i < call.t.n_buckets /\ ~__uhf_iseither(call.r.flags, call.i)
         THEN [call EXCEPT !.r.new_flags = __uhf_set_isempty_false(call.r.new_flags, call.i),
                           !.r.flags = __uhf_set_isdel_true(call.r.flags, call.i),
                           !.r.keys[call.i] = call.hand,
                           !.hand = call.r.keys[call.i],
                           !.i = home(call.r.keys[call.i], call.new_n - 1),
                           !.step = 0]
         ELSE [call EXCEPT !.pc = "scan",
                           !.r.new_flags = __uhf_set_isempty_false(call.r.new_flags, call.i),
                           !.r.keys[call.i] = call.hand,
                           !.hand = Uninit,
                           !.j = call.j + 1]
    /\ UNCHANGED <<h, uhash_map, model, peak>>

\* Lines 355, 386-398: the for loop is over, the new table is installed.
Install ==
    /\ call.op \in {"put", "resize"}
    /\ call.pc = "scan"
    /\ call.j = call.t.n_buckets
    /\ call' = ResizeEnd(resize_install(call.t, call.new_n, FALSE, call.r),
                         call.op, call.key)
    /\ UNCHANGED <<h, uhash_map, model, peak>>

\* The call returns to its caller.
Return ==
    /\ call.pc = "done"
    /\ call' = Idle
    /\ h' = IF call.op = "get" THEN h ELSE Observable(call.t)
    /\ model' = IF call.op = "put" THEN With(model, call.key, 0) ELSE model
    /\ UNCHANGED <<uhash_map, peak>>

\* The steps of a call in flight.
Advance ==
    \/ GetProbe
    \/ PutProbe
    \/ Scan
    \/ KickProbe
    \/ KickPlace
    \/ Install
    \/ Return

StepInit ==
    /\ h = uhash_alloc
    /\ uhash_map = FALSE
    /\ model = [q \in {} |-> 0]
    /\ peak = 0
    /\ call = Idle

StepNext ==
    \/ \E k \in Keys : GetEnter(k)
    \/ \E k \in Keys : PutEnter(k)
    \/ \E s \in Requests : ResizeEnter(s)
    \/ \E x \in 0..(MaxBuckets - 1) : call = Idle /\ Delete(x)
    \/ call = Idle /\ Clear
    \/ Advance

\* One caller, one call at a time on a set; a call that has begun goes on
\* executing.
StepSpec == StepInit /\ [][StepNext]_vars /\ WF_vars(Advance)

\* A call run step by step returns what the call run at once returns.
StepsAgree ==
    call.pc = "done" =>
        CASE call.op = "get" -> call.ret = uhash_get(h, call.key)
          [] call.op = "put" ->
                 /\ Observable(call.t) = Observable(uhash_put(h, call.key, FALSE, 0).h)
                 /\ call.ret = uhash_put(h, call.key, FALSE, 0).ret
                 /\ call.x = uhash_put(h, call.key, FALSE, 0).x
          [] call.op = "resize" ->
                 /\ call.ret
                 /\ \E s \in Requests :
                        Observable(call.t) = Observable(uhash_resize(h, s, FALSE, 0).h)

(* ------------------ uhash_get on a table with no EMPTY bucket ----------- *)
MaxProbeBits == 3

\* Capacities 4 .. 2^MaxProbeBits.
ProbeCapacities == {2 ^ b : b \in 2..MaxProbeBits}

\* A table of capacity n without an EMPTY bucket: the buckets of dels are
\* DELETED, every other bucket i holds the key i, whose home it is.
FullTable(n, dels) ==
    [n_buckets |-> n, n_occupied |-> n, count |-> n - Cardinality(dels),
     flags |-> [i \in DOMAIN memset_flags(n) |->
                  IF i >= n THEN 2 ELSE IF i \in dels THEN 1 ELSE 0],
     keys |-> [i \in 0..(n - 1) |-> IF i \in dels THEN Uninit ELSE i],
     vals |-> << >>]

\* All buckets OCCUPIED, all DELETED, and every second bucket DELETED.
FullTables ==
    UNION {{FullTable(n, {}),
            FullTable(n, 0..(n - 1)),
            FullTable(n, {i \in 0..(n - 1) : i % 2 = 0})} : n \in ProbeCapacities}

\* Keys that no table of FullTables holds, with every home bucket.
ProbeKeys == (2 ^ MaxProbeBits)..(2 * 2 ^ MaxProbeBits - 1)

ProbeInit ==
    /\ h \in {Observable(t) : t \in FullTables}
    /\ uhash_map = FALSE
    /\ model = [q \in {} |-> 0]
    /\ peak = 0
    /\ call = Idle

ProbeNext ==
    \/ \E k \in ProbeKeys : GetEnter(k)
    \/ GetProbe
    \/ Return

\* uhash_get calls, run iteration by iteration, on a table without an
\* EMPTY bucket.
ProbeSpec == ProbeInit /\ [][ProbeNext]_vars

C36_CallsTerminate ==
    /\ (call # Idle) ~> (call = Idle)
    /\ []((call.pc = "probe") =>
              call.step < (IF call.op = "get" THEN h.n_buckets ELSE call.t.n_buckets))
    /\ []((call.pc = "find") =>
              /\ call.step < call.new_n
              /\ \E b \in 0..(call.new_n - 1) : __uhf_isempty(call.r.new_flags, b))

\* A uhash_resize at work in its kick-out loop: the key in hand was evicted
\* from its bucket by another key, and its home bucket in the new table is
\* taken.
C36_Witness ==
    /\ call.pc = "find"
    /\ call.hand # call.t.keys[call.j]
    /\ call.step >= 1

\* The set after uhash_put of the keys Unhash(0) .. Unhash(u - 1) with
\* nothing deleted, for u from the upper bound of the largest capacity on:
\* capacity 2^(UHASH_UINT_BITS - 1), every key in its home bucket.
FilledTo(u) ==
    [n_buckets |-> Wrap \div 2, n_occupied |-> u, count |-> u,
     flags |-> [i \in 0..(Wrap \div 2 - 1) |-> IF i < u THEN 0 ELSE 2],
     keys |-> [i \in 0..(Wrap \div 2 - 1) |-> IF i < u THEN Unhash(i) ELSE Uninit],
     vals |-> << >>]

\* The set of the largest capacity after the put of its last key.
BrimTable ==
    uhash_put(FilledTo(Wrap \div 2 - 1), Unhash(Wrap \div 2 - 1), FALSE, 0).h

\* C37 as stated: whenever the capacity is not 0 at least one bucket is
\* EMPTY, on the tables the model reaches and on the set of the largest
\* capacity after the put of one key more, and a uhash_put reports
\* UHASH_PRESENT only for a key that is stored.
C37_AsStated ==
    /\ \A k \in Keys :
           uhash_put(h, k, uhash_map, 0).ret = UHASH_PRESENT => k \in StoredKeys(h)
    /\ \A t \in {h, BrimTable} :
           t.n_buckets > 0 => \E i \in Buckets(t) : __uhf_isempty(t.flags, i)

====
